---------------------------- MODULE Spec2Model ----------------------------
(***************************************************************************)
(* Model of the Text-to-CAD API server (src/api/main.py, src/api/pipeline.py):*)
(* the /generate retry loop, the /render handler, the Docker sandbox        *)
(* executor, mesh validation, artifact packaging and the error classifier.  *)
(*                                                                         *)
(* Strings are modelled as sequences of atoms.  An atom stands for a fixed  *)
(* run of characters ("ValueError:", "fillet", "\n", ...); substring tests  *)
(* (p in s)   are contiguous-subsequence tests, so that "fillet" occurs in  *)
(* "makefillet" = <<"make", "fillet">> as it does in Python.                *)
(***************************************************************************)
EXTENDS Integers, Sequences, FiniteSets, TLC

\* Optional values: None is the empty set, a present value x is {x}
None == {}
Some(x) == {x}
Get(o) == CHOOSE x \in o : TRUE

\* Python truthiness of an optional text
Truthy(o) == o # None /\ Get(o) # <<>>

\* ------------------------------------------------------------------
\* Text helpers (Python str operations over atom sequences)
\* ------------------------------------------------------------------

Min(a, b) == IF a <= b THEN a ELSE b

\* s[:n]
Take(s, n) == SubSeq(s, 1, Min(n, Len(s)))

\* s[n:]  (0-based n)
Drop(s, n) == SubSeq(s, Min(n, Len(s)) + 1, Len(s))

\* s.startswith(p)
StartsWith(s, p) == Len(p) <= Len(s) /\ SubSeq(s, 1, Len(p)) = p

\* p in s
Contains(s, p) ==
    \/ p = <<>>
    \/ \E i \in 0..(Len(s) - Len(p)) : s[i + 1] = p[1] /\ SubSeq(s, i + 1, i + Len(p)) = p

\* s.find(p): 0-based index of the first occurrence of p (p occurs in s)
Occurs(s, p, i) == p = <<>> \/ (s[i + 1] = p[1] /\ SubSeq(s, i + 1, i + Len(p)) = p)

FindFirst(s, p) == CHOOSE i \in 0..(Len(s) - Len(p)) :
                      /\ Occurs(s, p, i)
                      /\ \A j \in 0..(i - 1) : ~Occurs(s, p, j)

\* s.split(sep): the list of segments between occurrences of sep
RECURSIVE SplitOn(_, _)
SplitOn(s, sep) ==
    IF Contains(s, sep)
    THEN LET i == FindFirst(s, sep)
         IN  <<Take(s, i)>> \o SplitOn(Drop(s, i + Len(sep)), sep)
    ELSE <<s>>

\* whitespace atoms removed by str.strip()
Whitespace == {"\n", " "}

RECURSIVE LStrip(_)
LStrip(s) == IF s # <<>> /\ Head(s) \in Whitespace THEN LStrip(Tail(s)) ELSE s

RECURSIVE RStrip(_)
RStrip(s) == IF s # <<>> /\ s[Len(s)] \in Whitespace
             THEN RStrip(SubSeq(s, 1, Len(s) - 1)) ELSE s

\* s.strip()
Strip(s) == RStrip(LStrip(s))

\* the atoms that contain upper-case characters, with their lower-cased form
LowerTable ==
    [a \in {"ValueError:", "Fillet", "BEFORE", "FreeCAD Error:", "Traceback:",
            "Generated mesh ", "TIMEOUT:", "Errno", "R5", "Max"} |->
        CASE a = "ValueError:"     -> "valueerror:"
          [] a = "Fillet"          -> "fillet"
          [] a = "BEFORE"          -> "before"
          [] a = "FreeCAD Error:"  -> "freecad error:"
          [] a = "Traceback:"      -> "traceback:"
          [] a = "Generated mesh " -> "generated mesh "
          [] a = "TIMEOUT:"        -> "timeout:"
          [] a = "Errno"           -> "errno"
          [] a = "R5"              -> "r5"
          [] a = "Max"             -> "max"]

LowerAtom(a) == IF a \in DOMAIN LowerTable THEN LowerTable[a] ELSE a

\* s.lower()
Lower(s) == [i \in 1..Len(s) |-> LowerAtom(s[i])]

\* s.replace(a, b) for a single atom a and a text b
RECURSIVE ReplaceAtom(_, _, _)
ReplaceAtom(s, a, b) ==
    IF s = <<>> THEN <<>>
    ELSE (IF Head(s) = a THEN b ELSE <<Head(s)>>) \o ReplaceAtom(Tail(s), a, b)

\* ------------------------------------------------------------------
\* Error classifier: AgentPipeline._parse_freecad_error
\* ------------------------------------------------------------------

\* stderr[:300]
ExcerptLen == 300

\* error_line: the last line, replaced by the last line holding "ValueError:"
ErrorLine(stderr) ==
    LET lines == SplitOn(Strip(stderr), <<"\n">>)
        hits  == {i \in 1..Len(lines) : Contains(lines[i], <<"ValueError:">>)}
    IN  IF hits = {} THEN lines[Len(lines)]
        ELSE lines[CHOOSE i \in hits : \A j \in hits : j <= i]

HintDraft     == <<"DRAFT FAILED: You must apply draft BEFORE any fillets. Reorder: box -> draft -> fillet -> shell">>
HintNullShape == <<"NULL SHAPE: Boolean operation failed. Ensure objects overlap and have valid geometry.">>
HintFusion    == <<"FUSION FAILED: Objects DO NOT intersect. Move objects closer (overlap by at least 0.1mm) or check dimensions.">>
HintNonManifold == <<"NON-MANIFOLD: Mesh has holes. Check boolean operations created valid solids.">>
HintEmpty     == <<"EMPTY RESULT: No geometry created. Verify your logic creates actual shapes.">>
HintMakeFillet == <<"FILLET FAILED: Radius may be too large for edge length, or edge selection returned nothing.">>

\* variant: the error line is not quoted
HintFillet_bare(s) == <<"FILLET ERROR: ", ". Reduce fillet radius.">>

\* f"FILLET ERROR: {s.split('ValueError: ')[-1] if 'ValueError:' in s else s}. Reduce fillet radius."
HintFillet(s) ==
    LET parts == SplitOn(s, <<"ValueError:", " ">>)
        body  == IF Contains(s, <<"ValueError:">>) THEN parts[Len(parts)] ELSE s
    IN  <<"FILLET ERROR: ">> \o body \o <<". Reduce fillet radius.">>

\* variant: the whole text is quoted
HintGeneric_untruncated(stderr) == <<"ERROR: ">> \o stderr

\* f"ERROR: {stderr[:300]}"
HintGeneric(stderr) == <<"ERROR: ">> \o Take(stderr, ExcerptLen)

\* variant: the empty-result rule is tried before the boolean rules
_parse_freecad_error_reordered(stderr) ==
    LET s == Lower(ErrorLine(stderr))
    IN  IF \/ Contains(s, <<"apply_", "draft", " failed">>)
           \/ (Contains(s, <<"draft">>) /\ Contains(s, <<"before">>))
        THEN HintDraft
        ELSE IF Contains(s, <<"empty">>) THEN HintEmpty
        ELSE IF Contains(s, <<"null shape">>) THEN HintNullShape
        ELSE IF Contains(s, <<"fuse_objects", " failed">>) THEN HintFusion
        ELSE IF Contains(s, <<"fillet">>) /\ Contains(s, <<"too large">>) THEN HintFillet(s)
        ELSE IF Contains(s, <<"not watertight">>) THEN HintNonManifold
        ELSE IF Contains(s, <<"make", "fillet">>) THEN HintMakeFillet
        ELSE HintGeneric(stderr)

_parse_freecad_error(stderr) ==
    LET s == Lower(ErrorLine(stderr))
    IN  IF \/ Contains(s, <<"apply_", "draft", " failed">>)
           \/ (Contains(s, <<"draft">>) /\ Contains(s, <<"before">>))
        THEN HintDraft
        ELSE IF Contains(s, <<"null shape">>) THEN HintNullShape
        ELSE IF Contains(s, <<"fuse_objects", " failed">>) THEN HintFusion
        ELSE IF Contains(s, <<"fillet">>) /\ Contains(s, <<"too large">>) THEN HintFillet(s)
        ELSE IF Contains(s, <<"not watertight">>) THEN HintNonManifold
        ELSE IF Contains(s, <<"empty">>) THEN HintEmpty
        ELSE IF Contains(s, <<"make", "fillet">>) THEN HintMakeFillet
        ELSE HintGeneric(stderr)

\* ------------------------------------------------------------------
\* JSON texts (json.loads, json.dumps over atom sequences)
\*
\* A JSON text is a sequence of atoms, one atom per token: the punctuation
\* "{" "}" "[" "]" ":" ",", a number, or a whole string literal with its quotes.
\* A parsed value is a tagged tuple: <<"num", atom>>, <<"str", atom>>,
\* <<"arr", items>>, <<"obj", pairs>> with pairs a sequence of <<key atom, value>>.
\* ------------------------------------------------------------------

NumberTokens == {"0", "1"}

StringTokens ==
    {"\"\"", "\"features\"", "\"position\"", "\"near\"", "\"type\"", "\"custom\"",
     "\"dimensions\"", "\"error\"", "\"x\"", "\"y\"", "\"z\"", "\"constraints\"",
     "\"Could not parse prompt: error\"", "\"Spec extraction failed: error\""}

ParseFail == [ok |-> FALSE, val |-> <<"num", "0">>, rest |-> <<>>]
ParseOk(v, rest) == [ok |-> TRUE, val |-> v, rest |-> rest]

\* d[k] = v on the pairs of a dict: a key that is present keeps its place
RECURSIVE DictSet(_, _, _)
DictSet(pairs, k, v) ==
    IF pairs = <<>> THEN << <<k, v>> >>
    ELSE IF Head(pairs)[1] = k THEN << <<k, v>> >> \o Tail(pairs)
    ELSE <<Head(pairs)>> \o DictSet(Tail(pairs), k, v)

DictHas(pairs, k) == \E i \in 1..Len(pairs) : pairs[i][1] = k

\* d.get(k, default)
DictGet(pairs, k, default) ==
    IF DictHas(pairs, k)
    THEN pairs[CHOOSE i \in 1..Len(pairs) : pairs[i][1] = k][2]
    ELSE default

RECURSIVE ParseValue(_)
RECURSIVE ParseElements(_, _)
RECURSIVE ParseMembers(_, _)

\* one value at the head of token sequence s
ParseValue(s) ==
    IF s = <<>> THEN ParseFail
    ELSE IF Head(s) \in NumberTokens THEN ParseOk(<<"num", Head(s)>>, Tail(s))
    ELSE IF Head(s) \in StringTokens THEN ParseOk(<<"str", Head(s)>>, Tail(s))
    ELSE IF Head(s) = "["
    THEN IF Len(s) >= 2 /\ s[2] = "]" THEN ParseOk(<<"arr", <<>> >>, Drop(s, 2))
         ELSE ParseElements(Tail(s), <<>>)
    ELSE IF Head(s) = "{"
    THEN IF Len(s) >= 2 /\ s[2] = "}" THEN ParseOk(<<"obj", <<>> >>, Drop(s, 2))
         ELSE ParseMembers(Tail(s), <<>>)
    ELSE ParseFail

\* the elements of an array after "[" or ",", up to the closing "]"
ParseElements(s, acc) ==
    LET r == ParseValue(s) IN
    IF ~r.ok \/ r.rest = <<>> THEN ParseFail
    ELSE IF Head(r.rest) = "]" THEN ParseOk(<<"arr", Append(acc, r.val)>>, Tail(r.rest))
    ELSE IF Head(r.rest) = "," THEN ParseElements(Tail(r.rest), Append(acc, r.val))
    ELSE ParseFail

\* the members of an object after "{" or ",", up to the closing "}"
ParseMembers(s, acc) ==
    IF Len(s) < 3 \/ s[1] \notin StringTokens \/ s[2] # ":" THEN ParseFail
    ELSE LET r == ParseValue(Drop(s, 2)) IN
         IF ~r.ok \/ r.rest = <<>> THEN ParseFail
         ELSE IF Head(r.rest) = "}"
         THEN ParseOk(<<"obj", DictSet(acc, s[1], r.val)>>, Tail(r.rest))
         ELSE IF Head(r.rest) = ","
         THEN ParseMembers(Tail(r.rest), DictSet(acc, s[1], r.val))
         ELSE ParseFail

\* the tokens of a text: white space between tokens does not count
Tokens(text) == SelectSeq(text, LAMBDA a : a \notin Whitespace)

\* json.loads(text): the value, or none when it raises JSONDecodeError
json_loads(text) ==
    LET r == ParseValue(Tokens(text))
    IN  IF r.ok /\ r.rest = <<>> THEN Some(r.val) ELSE None

RECURSIVE Dumps(_, _)

\* the items of a container written one after the other with sep between them;
\* a member of an object is written as key, ": ", value
RECURSIVE DumpItems(_, _, _, _)
DumpItems(items, isObj, lvl, sep) ==
    IF items = <<>> THEN <<>>
    ELSE (IF isObj THEN <<Head(items)[1], ":", " ">> \o Dumps(Head(items)[2], lvl)
          ELSE Dumps(Head(items), lvl))
         \o (IF Tail(items) = <<>> THEN <<>> ELSE sep \o DumpItems(Tail(items), isObj, lvl, sep))

\* the indentation of depth lvl: two blanks per level
RECURSIVE Indent(_)
Indent(lvl) == IF lvl <= 0 THEN <<>> ELSE <<" ", " ">> \o Indent(lvl - 1)

\* json.dumps(v, indent=2) written at depth lvl >= 0; json.dumps(v) for lvl < 0
Dumps(v, lvl) ==
    IF v[1] \in {"num", "str"} THEN <<v[2]>>
    ELSE LET open  == IF v[1] = "arr" THEN "[" ELSE "{"
             close == IF v[1] = "arr" THEN "]" ELSE "}"
         IN  IF v[2] = <<>> THEN <<open, close>>
             ELSE IF lvl < 0
             THEN <<open>> \o DumpItems(v[2], v[1] = "obj", lvl, <<",", " ">>) \o <<close>>
             ELSE <<open, "\n">> \o Indent(lvl + 1)
                  \o DumpItems(v[2], v[1] = "obj", lvl + 1, <<",", "\n">> \o Indent(lvl + 1))
                  \o <<"\n">> \o Indent(lvl) \o <<close>>

\* json.dumps(v)
json_dumps(v) == Dumps(v, 0 - 1)

\* json.dumps(v, indent=2)
json_dumps_indent(v) == Dumps(v, 0)

\* ------------------------------------------------------------------
\* Specification extraction: AgentPipeline._extract_spec (from the call on)
\* ------------------------------------------------------------------

FenceJson == <<"<fence>", "json">>

\* text.split(FenceJson)[1].split(Fence)[0]  /  text.split(Fence)[1].split(Fence)[0]
ExtractJson(text) ==
    IF Contains(text, FenceJson)
    THEN SplitOn(SplitOn(text, FenceJson)[2], <<"<fence>">>)[1]
    ELSE IF Contains(text, <<"<fence>">>)
    THEN SplitOn(SplitOn(text, <<"<fence>">>)[2], <<"<fence>">>)[1]
    ELSE text

\* the string literals that hold one of the words adjacent, next to, beside, near
AmbiguousStrings == {"\"near\""}

\* {"x": 0, "y": 0, "z": 0}
Origin == <<"obj", << <<"\"x\"", <<"num", "0">> >>, <<"\"y\"", <<"num", "0">> >>,
                      <<"\"z\"", <<"num", "0">> >> >> >>

\* one pass of the loop body over a feature that is a dict
ResolveFeature(f) ==
    LET pos == DictGet(f[2], "\"position\"", <<"str", "\"\"">>)
    IN  IF pos[1] = "str" /\ pos[2] \in AmbiguousStrings
        THEN <<"obj", DictSet(f[2], "\"position\"", Origin)>>
        ELSE f

Raises(type) == [exc |-> Some(type), val |-> <<"num", "0">>]
Returns(v) == [exc |-> None, val |-> v]

\* if "features" in parsed: for feature in parsed.get("features", []): ...
\* the exception raised, or the value parsed holds afterwards
ResolvePositions(parsed) ==
    CASE parsed[1] = "num" -> Raises("TypeError")
      [] parsed[1] = "str" ->
            IF parsed[2] = "\"features\"" THEN Raises("AttributeError") ELSE Returns(parsed)
      [] parsed[1] = "arr" ->
            IF \E i \in 1..Len(parsed[2]) : parsed[2][i] = <<"str", "\"features\"">>
            THEN Raises("AttributeError") ELSE Returns(parsed)
      [] parsed[1] = "obj" ->
            IF ~DictHas(parsed[2], "\"features\"") THEN Returns(parsed)
            ELSE LET fs == DictGet(parsed[2], "\"features\"", <<"arr", <<>> >>)
                 IN  CASE fs[1] = "num" -> Raises("TypeError")
                       [] fs[1] = "str" -> Raises("AttributeError")
                       [] fs[1] = "obj" ->
                             IF fs[2] = <<>> THEN Returns(parsed) ELSE Raises("AttributeError")
                       [] fs[1] = "arr" ->
                             IF \E i \in 1..Len(fs[2]) : fs[2][i][1] # "obj"
                             THEN Raises("AttributeError")
                             ELSE Returns(<<"obj", DictSet(parsed[2], "\"features\"",
                                      <<"arr", [i \in 1..Len(fs[2]) |-> ResolveFeature(fs[2][i])]>>)>>)

\* the placeholder returned for a reply that is no JSON text
PlaceholderUnparsed ==
    <<"obj", << <<"\"type\"", <<"str", "\"custom\"">> >>,
                <<"\"dimensions\"", <<"obj", <<>> >> >>,
                <<"\"features\"", <<"arr", <<>> >> >>,
                <<"\"error\"", <<"str", "\"Could not parse prompt: error\"">> >> >> >>

\* the placeholder returned when anything inside the try raised
PlaceholderFailed ==
    <<"obj", << <<"\"type\"", <<"str", "\"custom\"">> >>,
                <<"\"dimensions\"", <<"obj", <<>> >> >>,
                <<"\"features\"", <<"arr", <<>> >> >>,
                <<"\"error\"", <<"str", "\"Spec extraction failed: error\"">> >> >> >>

NoUsage == [input |-> 0, output |-> 0]

\* the try block of _extract_spec for the outcome call of generate_content_async:
\* the exception that leaves it, or the (text, usage) it returns
ExtractBody(call) ==
    IF call.raises THEN [exc |-> Some("Exception"), text |-> <<>>, usage |-> NoUsage]
    ELSE IF ~call.has_text THEN [exc |-> Some("ValueError"), text |-> <<>>, usage |-> NoUsage]
    ELSE LET parsed == json_loads(ExtractJson(call.text)) IN
         IF parsed = None
         THEN [exc |-> None, text |-> Strip(json_dumps(PlaceholderUnparsed)),
               usage |-> call.usage]
         ELSE LET r == ResolvePositions(Get(parsed)) IN
              IF r.exc # None THEN [exc |-> r.exc, text |-> <<>>, usage |-> NoUsage]
              ELSE [exc |-> None, text |-> Strip(json_dumps_indent(r.val)),
                    usage |-> call.usage]

\* variant: without the outer except
_extract_spec_uncaught(call) ==
    LET b == ExtractBody(call)
    IN  [raised |-> b.exc # None, text |-> b.text, usage |-> b.usage]

\* _extract_spec: except Exception returns the placeholder with zero usage
_extract_spec(call) ==
    LET b == ExtractBody(call)
    IN  IF b.exc # None
        THEN [raised |-> FALSE, text |-> json_dumps(PlaceholderFailed), usage |-> NoUsage]
        ELSE [raised |-> FALSE, text |-> b.text, usage |-> b.usage]

\* ------------------------------------------------------------------
\* Code generation: AgentPipeline._generate_code (from the model reply on)
\* ------------------------------------------------------------------

\* the atom "<fence>" stands for the three-backquote markdown fence
FencePython == <<"<fence>", "python">>
Fence       == <<"<fence>">>

\* text.split(FencePython)[1].split(Fence)[0]  /  text.split(Fence)[1].split(Fence)[0]
ExtractCode(text) ==
    IF Contains(text, FencePython)
    THEN SplitOn(SplitOn(text, FencePython)[2], Fence)[1]
    ELSE IF Contains(text, Fence)
    THEN SplitOn(SplitOn(text, Fence)[2], Fence)[1]
    ELSE text

\* wrap the code when the function definition is missing
EnsureFunction(text) ==
    IF Contains(text, <<"def generate_model">>) THEN text
    ELSE <<"def generate_model", "\n", "    ", "from FreeCAD import Base", "\n", "    ">>
         \o ReplaceAtom(text, "\n", <<"\n", "    ">>)

\* variant: the last pattern is missing from the list
dangerous_short == << <<"subprocess">>, <<"os.system">>, <<"eval(">>, <<"exec(">>,
                      <<"__import__">> >>

dangerous == << <<"subprocess">>, <<"os.system">>, <<"eval(">>, <<"exec(">>,
                <<"__import__">>, <<"os.popen">> >>

\* index of the first pattern of patterns that occurs in text, 0 when none does
FirstBlocked(text, patterns) ==
    LET hits == {i \in 1..Len(patterns) : Contains(text, patterns[i])}
    IN  IF hits = {} THEN 0 ELSE CHOOSE i \in hits : \A j \in hits : i <= j

ScriptHeader == <<"import os, sys", "\n", "sys.path.append('/app/lib')", "\n",
                  "from freecad_utils import PartUtils", "\n", "\n">>
ScriptFooter == <<"\n", "\n", "if __name__ == '__main__':", "\n",
                  "generate_model(utils, os.environ.get('STEP_OUTPUT'), os.environ.get('STL_OUTPUT'))",
                  "\n">>

\* the result of _generate_code for the reply reply: the wrapped script, or the
\* ValueError raised by the security validation
_generate_code(reply) ==
    LET text == EnsureFunction(ExtractCode(reply))
        hit  == FirstBlocked(text, dangerous)
    IN  IF hit # 0
        THEN [raised |-> TRUE, type |-> "ValueError",
              msg |-> <<"Security: blocked pattern '">> \o dangerous[hit] \o <<"'">>]
        ELSE [raised |-> FALSE,
              code |-> ScriptHeader \o Strip(text) \o ScriptFooter]

\* ------------------------------------------------------------------
\* Inputs the environment can supply
\* ------------------------------------------------------------------

\* length of the long diagnostic text (longer than the excerpt kept by the classifier)
FillerLen == 305

Filler == [i \in 1..FillerLen |-> "x"]

\* replies of the model service to the code-generation prompt
ReplyTexts ==
    { <<"<fence>", "python", "\n", "def generate_model", "\n", "box", "\n", "<fence>">>,
      <<"def generate_model", "\n", "box">>,
      <<"box", "\n", "export">>,
      <<"import ", "os.system", "\n", "<fence>", "python", "\n", "def generate_model", "\n", "box", "<fence>">>,
      <<"<fence>", "\n", "os.popen", "\n", "<fence>">>,
      <<"def generate_model", "\n", "my_", "exec(", "box">> }
    \cup { <<"def generate_model", "\n">> \o dangerous[i] : i \in 1..Len(dangerous) }

\* a script accepted by an earlier request (previous_code)
PrevScript == <<"def generate_model", "\n", "old box">>

\* scripts posted to /render
RenderScripts ==
    { <<>>,
      <<"def generate_model", "\n", "box">>,
      <<"import ", "subprocess", "\n", "box">> }

\* error stream of a script whose apply_fillet call was given a radius above the
\* maximum safe radius of an edge
FilletStderr ==
    <<"Traceback:", "\n", "ValueError:", " ", "apply_fillet(", "R5", ") failed: ", "Fillet",
      " ", "R5", " ", "too large", " for edge length 4.00. ", "Max", " safe radius is 1.99", "\n">>

\* what a script run can leave on the error stream
StderrTexts ==
    { <<>>,
      FilletStderr,
      <<"ValueError:", " ", "fuse_objects", " failed", ": disjoint solids">>,
      <<"ValueError:", " ", "make", "Fillet", "(", "R5", ") returned null">>,
      <<"ValueError:", " ", "apply_", "draft", " failed", ": ", "null shape", "\n",
        "Segmentation fault">>,
      <<"Segmentation fault">>,
      Filler }

\* str(e) of an exception raised while creating or awaiting the docker subprocess
LaunchErrorText == <<"[", "Errno", " 2] No such file or directory: 'docker'">>

\* str(e) of an exception raised by work_dir.mkdir
MkdirErrorText == <<"mkdir failed">>

\* str(e) of an exception raised while gen.py is written
WriteErrorText == <<"write failed">>

\* str(e) of an exception raised while writing the archive
ArchiveErrorText == <<"[", "Errno", " 28] No space left on device">>

\* a script run that ended with a failure: exit code and error stream
ScriptFailures ==
    [code : {1}, stderr : StderrTexts] \cup [code : {137}, stderr : {<<>>, <<"Killed">>}]

\* what trimesh reports about output.stl
\* (a mesh without faces encloses no volume and is not watertight)
Meshes ==
    [loadable : {TRUE}, is_empty : {FALSE}, is_watertight : BOOLEAN,
     volume : {-1, 0, 1}, faces : {2}]
    \cup
    [loadable : {TRUE}, is_empty : BOOLEAN, is_watertight : {FALSE},
     volume : {0}, faces : {0}]
    \cup
    [loadable : {FALSE}, is_empty : {TRUE}, is_watertight : {FALSE},
     volume : {0}, faces : {0}]

\* no sandbox result is held
NoResult == [stderr |-> <<>>, code |-> 0, cause |-> "none"]

NoMesh == [loadable |-> FALSE, is_empty |-> TRUE, is_watertight |-> FALSE,
           volume |-> 0, faces |-> 0]

Formats == {"stl", "step", "zip", "both", "obj"}

Requests ==
    [endpoint : {"generate"}, gemini_api_key : {None, Some("key")},
     previous_code : {None}, format : Formats, scad_code : {<<>>}]
    \cup
    [endpoint : {"generate"}, gemini_api_key : {None, Some("key")},
     previous_code : {Some(PrevScript)}, format : {"stl", "zip"}, scad_code : {<<>>}]
    \cup
    [endpoint : {"render"}, gemini_api_key : {None},
     previous_code : {None}, format : Formats, scad_code : RenderScripts]

\* ------------------------------------------------------------------
\* State
\* ------------------------------------------------------------------

VARIABLES
    req,            \* the request: endpoint and its fields
    pc,             \* where the handler is: request, generating, executing,
                    \* validating, packaging, done
    attempt,        \* loop variable of generate_from_text
    last_error,     \* last_error of generate_from_text (optional exception)
    feedback_msg,   \* feedback_msg of generate_from_text (optional text)
    fc_code,        \* the script handed to _run_freecad_generation
    extra_headers,  \* extra_headers of _run_freecad_generation (optional header set)
    work_dir,       \* work_dir of the running attempt (optional directory id)
    dirs,           \* the scratch directories that exist
    files,          \* names of the files in work_dir, the only directory that is read
    nextDir,        \* number of identifiers drawn so far (uuid4 is fresh each time)
    sbx,            \* (stderr, code) returned by _run_docker_execution
    mesh,           \* what trimesh reports for output.stl of the running attempt
    response,       \* the terminal outcome of the handler (optional)
    bgTasks,        \* background_tasks: directories whose cleanup is scheduled
    rmAttempted,    \* directories on which shutil.rmtree was called
    sandboxCalls,   \* number of _run_docker_execution invocations
    genCalls,       \* number of agent_pipeline.run invocations
    feedback,       \* feedback argument of the latest agent_pipeline.run call
    prevFailure,    \* the GeometryError handled last by the retry loop, with its attempt
                    \* and the sandbox result it came from
    classified,     \* the latest _parse_freecad_error call: attempt, argument, hint
    created,        \* the scratch directories that were ever created
    running,        \* the containers (named by their scratch directory) that are running
    rmCalls,        \* number of shutil.rmtree invocations
    lastRaise,      \* the exception raised last inside the try block of
                    \* _run_freecad_generation, and whether the removal that followed
                    \* deleted the directory
    bgError,        \* the exception that left a background task (optional)
    cmd,            \* arguments of the latest docker subprocess (empty before the first)
    jobs,           \* the handlers of concurrently served /generate requests
    configured,     \* the credential genai.configure stored last (process-wide)
    sent,           \* whether the FileResponse was sent: "no", "ok", or "missing" when
                    \* its file was gone at the time
    service,        \* outcome of the generate_content_async call of _extract_spec
    extracted       \* what _extract_spec returned or raised (optional), then the spec
                    \* run() hands to _generate_code

vars == <<req, pc, attempt, last_error, feedback_msg, fc_code, extra_headers, work_dir,
          dirs, files, nextDir, sbx, mesh, response, bgTasks, rmAttempted, sandboxCalls,
          genCalls, feedback, prevFailure, classified, created, running, rmCalls,
          lastRaise, bgError, cmd, jobs, configured, sent, service, extracted>>

\* no model-service call of _extract_spec is looked at
NoReply == [raises |-> FALSE, has_text |-> FALSE, text |-> <<>>, usage |-> NoUsage]

\* exit code reported for a run that exceeded the timeout
TimeoutSentinel == 124

TimeoutText == <<"TIMEOUT:", " Execution exceeded 30s limit">>

\* ------------------------------------------------------------------
\* Exceptions and responses
\* ------------------------------------------------------------------

Exc(type, status, msg) == [type |-> type, status |-> status, msg |-> msg]

GeometryError(msg) == Exc("GeometryError", 0, msg)
HTTPException(status, detail) == Exc("HTTPException", status, detail)

\* the outcome of a handler that ends by raising e: an HTTPException is mapped to its
\* status and detail, any other exception leaves the handler unmapped (the server
\* answers 500 Internal Server Error)
ErrorResponse(e) ==
    [kind |-> "error", raw |-> e.type # "HTTPException", type |-> e.type,
     status |-> IF e.type = "HTTPException" THEN e.status ELSE 500,
     detail |-> e.msg, filename |-> <<>>, path |-> <<>>, headers |-> {},
     entries |-> <<>>]

FileResponse(path, filename, headers, entries) ==
    [kind |-> "file", raw |-> FALSE, type |-> "FileResponse", status |-> 200,
     detail |-> <<>>, filename |-> filename, path |-> path, headers |-> headers,
     entries |-> entries]

\* ------------------------------------------------------------------
\* generate_from_text: the pieces of the retry loop
\* ------------------------------------------------------------------

\* for attempt in range(3)
InRange(a) == a < 3

\* variant: the loop variable does not advance
NextAttempt_stuck(a) == a

\* variant: the loop skips an ordinal
NextAttempt_skip(a) == a + 2

NextAttempt(a) == a + 1

\* variant: only the first failure is classified and retried
RetryAllowed_once(a) == a < 1

\* if attempt < 2
RetryAllowed(a) == a < 2

\* variant: the previous script is used on every attempt
SelectFeedback_always_previous(previous_code, a, fmsg) ==
    IF Truthy(previous_code) THEN previous_code ELSE fmsg

\* variant: the previous script is never used
SelectFeedback_never_previous(previous_code, a, fmsg) == fmsg

\* feedback = previous_code if previous_code and attempt == 0 else feedback_msg
SelectFeedback(previous_code, a, fmsg) ==
    IF Truthy(previous_code) /\ a = 0 THEN previous_code ELSE fmsg

\* variant: the header is written on every attempt
RetryHeader_always(a) == {<<"X-Retry-Count", ToString(a)>>}

\* if attempt > 0: headers["X-Retry-Count"] = str(attempt)
RetryHeader(a) == IF a > 0 THEN {<<"X-Retry-Count", ToString(a)>>} ELSE {}

\* headers built before _run_freecad_generation is called
GenerationHeaders(a) ==
    {<<"X-Input-Tokens", "n">>, <<"X-Output-Tokens", "n">>,
     <<"X-Extracted-Constraints", "spec">>, <<"X-Duration-Spec", "t">>,
     <<"X-Duration-Code", "t">>} \cup RetryHeader(a)

\* variant: the first failure is kept
UpdateLastError_first(old, e) == IF old = None THEN Some(e) ELSE old

\* last_error = e
UpdateLastError(old, e) == Some(e)

\* detail of the HTTPException raised after the loop
ExhaustedDetail(err) ==
    <<"Generation failed after 3 attempts: ">> \o (IF err = None THEN <<"None">> ELSE Get(err).msg)

\* ------------------------------------------------------------------
\* Mesh validation and metadata
\* ------------------------------------------------------------------

\* variant: nothing is checked
validate_mesh_never(exists, m) == None

\* variant: the volume is not checked
validate_mesh_no_volume(exists, m) ==
    IF ~exists THEN None
    ELSE IF ~m.loadable THEN None
    ELSE IF m.is_empty
    THEN Some(GeometryError(<<"Generated mesh ", "is ", "empty", ".">>))
    ELSE IF ~m.is_watertight
    THEN Some(GeometryError(<<"Generated mesh ", "is ", "not watertight", " (non-manifold).">>))
    ELSE None

\* variant: a mesh that cannot be loaded is a geometry violation
validate_mesh_strict(exists, m) ==
    IF ~exists THEN None
    ELSE IF ~m.loadable
    THEN Some(GeometryError(<<"Mesh validation failed: ", "error">>))
    ELSE IF m.is_empty
    THEN Some(GeometryError(<<"Generated mesh ", "is ", "empty", ".">>))
    ELSE IF ~m.is_watertight
    THEN Some(GeometryError(<<"Generated mesh ", "is ", "not watertight", " (non-manifold).">>))
    ELSE IF m.volume <= 0
    THEN Some(GeometryError(<<"Generated mesh ", "has zero or negative volume.">>))
    ELSE IF m.faces = 0
    THEN Some(GeometryError(<<"Generated mesh ", "has no faces.">>))
    ELSE None

\* variant: the watertight check comes before the empty check
validate_mesh_reordered(exists, m) ==
    IF ~exists THEN None
    ELSE IF ~m.loadable THEN None
    ELSE IF ~m.is_watertight
    THEN Some(GeometryError(<<"Generated mesh ", "is ", "not watertight", " (non-manifold).">>))
    ELSE IF m.is_empty
    THEN Some(GeometryError(<<"Generated mesh ", "is ", "empty", ".">>))
    ELSE IF m.volume <= 0
    THEN Some(GeometryError(<<"Generated mesh ", "has zero or negative volume.">>))
    ELSE IF m.faces = 0
    THEN Some(GeometryError(<<"Generated mesh ", "has no faces.">>))
    ELSE None

\* validate_mesh: None when it returns normally, else the GeometryError it raises
validate_mesh(exists, m) ==
    IF ~exists THEN None
    ELSE IF ~m.loadable THEN None
    ELSE IF m.is_empty
    THEN Some(GeometryError(<<"Generated mesh ", "is ", "empty", ".">>))
    ELSE IF ~m.is_watertight
    THEN Some(GeometryError(<<"Generated mesh ", "is ", "not watertight", " (non-manifold).">>))
    ELSE IF m.volume <= 0
    THEN Some(GeometryError(<<"Generated mesh ", "has zero or negative volume.">>))
    ELSE IF m.faces = 0
    THEN Some(GeometryError(<<"Generated mesh ", "has no faces.">>))
    ELSE None

\* _get_mesh_metadata as the headers it leads to: nothing when the file is absent or
\* when loading the mesh or reading its bounds raises
_get_mesh_metadata(exists, m) ==
    IF ~exists THEN {}
    ELSE IF ~m.loadable \/ m.is_empty THEN {}
    ELSE {<<"X-Mesh-Volume", ToString(m.volume)>>, <<"X-Mesh-BBox", "bbox">>}

\* ------------------------------------------------------------------
\* Initial state: a request has arrived
\* ------------------------------------------------------------------

Init ==
    /\ req \in Requests
    /\ pc = "request"
    /\ attempt = 0
    /\ last_error = None
    /\ feedback_msg = None
    /\ fc_code = <<>>
    /\ extra_headers = None
    /\ work_dir = None
    /\ dirs = {}
    /\ files = {}
    /\ nextDir = 0
    /\ sbx = NoResult
    /\ mesh = NoMesh
    /\ response = None
    /\ bgTasks = <<>>
    /\ rmAttempted = {}
    /\ sandboxCalls = 0
    /\ genCalls = 0
    /\ feedback = None
    /\ prevFailure = None
    /\ classified = None
    /\ created = {}
    /\ running = {}
    /\ rmCalls = 0
    /\ lastRaise = None
    /\ bgError = None
    /\ cmd = <<>>
    /\ sent = "no"
    /\ service = NoReply
    /\ extracted = None
    /\ jobs = <<>>
    /\ configured = None

\* ------------------------------------------------------------------
\* Steps shared by the handlers
\* ------------------------------------------------------------------

\* variant: the outcome is reported and the handler goes on
Finish_continue(r) ==
    /\ pc' = pc
    /\ response' = Some(r)

\* the handler ends with outcome r
Finish(r) ==
    /\ pc' = "done"
    /\ response' = Some(r)

\* top of one loop iteration, up to the await of agent_pipeline.run
EnterAttempt(a, fmsg) ==
    /\ attempt' = a
    /\ feedback' = SelectFeedback(req.previous_code, a, fmsg)
    /\ genCalls' = genCalls + 1
    /\ pc' = "generating"
    /\ response' = response

\* variant: the same identifier is drawn every time
uuid4_repeating(n) == 0

\* str(uuid.uuid4()): the n-th identifier drawn is different from all drawn before
uuid4(n) == n

\* variant: the container is launched with the scratch mount only
DockerCommand_unconfined(d) ==
    << <<"docker">>, <<"run">>, <<"--rm">>,
       <<"-v">>, <<"work_dir/", ToString(d), ":/workspace", ":rw">>, <<"-w">>, <<"/workspace">>,
       <<"-e">>, <<"STEP_OUTPUT=/workspace/output.step">>, <<"-e">>, <<"STL_OUTPUT=/workspace/output.stl">>,
       <<"-v">>, <<"lib_path", ":/app/lib">>, <<"DOCKER_RUNNER_IMAGE">>, <<"/workspace/gen.py">> >>

\* the docker command line built for scratch directory d; every argument is a text
DockerCommand(d) ==
    << <<"docker">>, <<"run">>, <<"--rm">>,
       <<"--network">>, <<"none">>,
       <<"--cpus">>, <<"2.0">>,
       <<"--memory">>, <<"2048m">>,
       <<"--user">>, <<"1000:1000">>,
       <<"--read-only">>,
       <<"--tmpfs">>, <<"/tmp", ":rw", ",size=512m">>,
       <<"-v">>, <<"work_dir/", ToString(d), ":/workspace", ":rw">>,
       <<"-w">>, <<"/workspace">>,
       <<"-e">>, <<"STEP_OUTPUT=/workspace/output.step">>,
       <<"-e">>, <<"STL_OUTPUT=/workspace/output.stl">>,
       <<"-v">>, <<"lib_path", ":/app/lib", ":ro">>,
       <<"DOCKER_RUNNER_IMAGE">>,
       <<"/workspace/gen.py">> >>

\* _run_freecad_generation is called with (code, headers): _run_docker_execution draws
\* a fresh identifier, creates the scratch directory, writes gen.py and starts the
\* docker subprocess.  A failing mkdir or write raises out of both functions.
Launch(code, headers) ==
    LET d == uuid4(nextDir) IN
    /\ sandboxCalls' = sandboxCalls + 1
    /\ nextDir' = nextDir + 1
    /\ fc_code' = code
    /\ extra_headers' = headers
    /\ \E prep \in {"ok", "mkdir_fails", "write_fails"} :
         CASE prep = "ok" ->
                /\ dirs' = dirs \cup {d}
                /\ created' = created \cup {d}
                /\ files' = {"gen.py"}
                /\ work_dir' = Some(d)
                /\ running' = running \cup {d}
                /\ cmd' = DockerCommand(d)
                /\ pc' = "executing"
                /\ response' = response
           [] prep = "mkdir_fails" ->
                /\ UNCHANGED <<dirs, files, created, running, cmd>>
                /\ work_dir' = None
                /\ Finish(ErrorResponse(Exc("OSError", 500, MkdirErrorText)))
           [] prep = "write_fails" ->
                /\ dirs' = dirs \cup {d}
                /\ created' = created \cup {d}
                /\ files' = {}
                /\ work_dir' = None
                /\ UNCHANGED <<running, cmd>>
                /\ Finish(ErrorResponse(Exc("OSError", 500, WriteErrorText)))

\* except GeometryError in generate_from_text, and what follows it
HandleGeometryError(e) ==
    LET err == UpdateLastError(last_error, e) IN
    /\ last_error' = err
    /\ prevFailure' = Some([attempt |-> attempt, e |-> e, cause |-> sbx.cause,
                             code |-> sbx.code, stderr |-> sbx.stderr])
    /\ IF RetryAllowed(attempt)
       THEN LET hint == _parse_freecad_error(e.msg) IN
            /\ feedback_msg' = Some(hint)
            /\ classified' = Some([attempt |-> attempt, arg |-> e.msg, hint |-> hint])
            /\ IF InRange(NextAttempt(attempt))
               THEN EnterAttempt(NextAttempt(attempt), Some(hint))
               ELSE /\ Finish(ErrorResponse(HTTPException(400, ExhaustedDetail(err))))
                    /\ UNCHANGED <<attempt, feedback, genCalls>>
       ELSE /\ Finish(ErrorResponse(HTTPException(400, ExhaustedDetail(err))))
            /\ UNCHANGED <<attempt, feedback, genCalls, feedback_msg, classified>>

\* variant: a GeometryError is handed to the retry loop whatever the endpoint
Propagate_retry_all(e) ==
    IF e.type = "GeometryError"
    THEN HandleGeometryError(e)
    ELSE /\ Finish(ErrorResponse(e))
         /\ UNCHANGED <<attempt, feedback, genCalls, feedback_msg, classified,
                        last_error, prevFailure>>

\* an exception e leaves _run_freecad_generation and reaches the endpoint handler
Propagate(e) ==
    IF req.endpoint = "generate" /\ e.type = "GeometryError"
    THEN HandleGeometryError(e)
    ELSE /\ Finish(ErrorResponse(e))
         /\ UNCHANGED <<attempt, feedback, genCalls, feedback_msg, classified,
                        last_error, prevFailure>>

\* str(e) of an exception raised by shutil.rmtree
RmtreeErrorText == <<"[", "Errno", " 13] Permission denied">>

\* variant: the removal is called without ignore_errors
RemoveOnFailure_strict(removed) ==
    IF removed THEN None ELSE Some(Exc("PermissionError", 500, RmtreeErrorText))

\* shutil.rmtree(work_dir, ignore_errors=True) in the except block: the exception the
\* call raises, none whether or not the directory could be deleted
RemoveOnFailure(removed) == None

\* cleanup_workdir: the exception that leaves the background task, none because the
\* deletion error is caught and logged
cleanup_workdir(removed) == None

\* variant: the except block re-raises and leaves the scratch directory alone
RaiseInGeneration_keep(e) ==
    /\ UNCHANGED <<rmAttempted, rmCalls, dirs>>
    /\ files' = {}
    /\ work_dir' = None
    /\ sbx' = NoResult
    /\ mesh' = NoMesh
    /\ fc_code' = <<>>
    /\ lastRaise' = Some([e |-> e, removed |-> FALSE])
    /\ Propagate(IF e.type \in {"GeometryError", "HTTPException"} THEN e
                 ELSE HTTPException(500, e.msg))

\* e is raised inside the try block of _run_freecad_generation: the except block
\* removes the scratch directory (errors ignored) and re-raises; the locals of the
\* call (the script, stderr, code, the mesh) are gone
RaiseInGeneration(e) ==
    LET d == Get(work_dir) IN
    /\ rmAttempted' = rmAttempted \cup {d}
    /\ rmCalls' = rmCalls + 1
    /\ files' = {}
    /\ work_dir' = None
    /\ sbx' = NoResult
    /\ mesh' = NoMesh
    /\ fc_code' = <<>>
    /\ \E removed \in BOOLEAN :
         LET del == RemoveOnFailure(removed) IN
         /\ dirs' = IF removed THEN dirs \ {d} ELSE dirs
         /\ lastRaise' = Some([e |-> e, removed |-> removed])
         /\ Propagate(IF del # None THEN Get(del)
                      ELSE IF e.type \in {"GeometryError", "HTTPException"} THEN e
                      ELSE HTTPException(500, e.msg))

\* ------------------------------------------------------------------
\* Actions
\* ------------------------------------------------------------------

\* variant: the credential is not checked
CredentialMissing_never(key) == FALSE

\* if not gemini_api_key
CredentialMissing(key) == key = None

\* if not body.scad_code
ScriptMissing(code) == code = <<>>

\* POST /generate arrives: key check, pipeline construction, first loop iteration
GenerateStart ==
    /\ pc = "request"
    /\ req.endpoint = "generate"
    /\ IF CredentialMissing(req.gemini_api_key)
       THEN /\ Finish(ErrorResponse(HTTPException(400,
                        <<"gemini_api_key is required in request body">>)))
            /\ UNCHANGED <<attempt, feedback, genCalls>>
       ELSE \E constructed \in BOOLEAN :
              IF constructed
              THEN EnterAttempt(0, None)
              ELSE /\ Finish(ErrorResponse(HTTPException(400,
                        <<"Invalid API key or pipeline initialization failed: ", "error">>)))
                   /\ UNCHANGED <<attempt, feedback, genCalls>>
    /\ UNCHANGED <<req, last_error, feedback_msg, fc_code, extra_headers, work_dir, dirs,
                   files, nextDir, sbx, mesh, bgTasks, rmAttempted, sandboxCalls, prevFailure,
                   classified, created, running, rmCalls, lastRaise, bgError, cmd, jobs, configured, sent, service, extracted>>

\* agent_pipeline.run ends: the model service raised, the security validation raised,
\* or a script is returned and handed to _run_freecad_generation
PipelineReturn ==
    /\ pc = "generating"
    /\ \/ /\ Finish(ErrorResponse(Exc("Exception", 500, <<"model service error">>)))
          /\ UNCHANGED <<fc_code, extra_headers, work_dir, dirs, files, nextDir,
                         sandboxCalls, created, running, cmd>>
       \/ \E reply \in ReplyTexts :
            LET r == _generate_code(reply) IN
            IF r.raised
            THEN /\ Finish(ErrorResponse(Exc(r.type, 500, r.msg)))
                 /\ UNCHANGED <<fc_code, extra_headers, work_dir, dirs, files, nextDir,
                         sandboxCalls, created, running, cmd>>
            ELSE Launch(r.code, Some(GenerationHeaders(attempt)))
    /\ UNCHANGED <<req, attempt, last_error, feedback_msg, sbx, mesh, bgTasks,
                   rmAttempted, genCalls, feedback, prevFailure, classified, rmCalls,
                   lastRaise, bgError, jobs, configured, sent, service, extracted>>

\* POST /render arrives: the script is executed as posted
RenderStart ==
    /\ pc = "request"
    /\ req.endpoint = "render"
    /\ IF ScriptMissing(req.scad_code)
       THEN /\ Finish(ErrorResponse(HTTPException(400, <<"scad_code is required">>)))
            /\ UNCHANGED <<fc_code, extra_headers, work_dir, dirs, files, nextDir,
                         sandboxCalls, created, running, cmd>>
       ELSE Launch(req.scad_code, None)
    /\ UNCHANGED <<req, attempt, last_error, feedback_msg, sbx, mesh, bgTasks,
                   rmAttempted, genCalls, feedback, prevFailure, classified, rmCalls,
                   lastRaise, bgError, jobs, configured, sent, service, extracted>>

OutputFiles == {"output.step", "output.stl"}

\* what _run_docker_execution can return, with the files the script left behind
SandboxOutcomes ==
    [cause : {"launch_error"}, code : {1}, stderr : {LaunchErrorText},
     files : {{}}, mesh : {NoMesh}]
    \cup
    [cause : {"timeout"}, code : {TimeoutSentinel}, stderr : {TimeoutText},
     files : {{}, OutputFiles}, mesh : {NoMesh}]
    \cup
    { [cause |-> "exit", code |-> f.code, stderr |-> f.stderr, files |-> fl,
       mesh |-> NoMesh] : f \in ScriptFailures, fl \in {{}, OutputFiles} }
    \cup
    [cause : {"exit"}, code : {0}, stderr : {<<>>},
     files : {{}, {"output.step"}}, mesh : {NoMesh}]
    \cup
    [cause : {"exit"}, code : {0}, stderr : {<<>>},
     files : {{"output.stl"}, OutputFiles}, mesh : Meshes]

\* the await of _run_docker_execution completes
SandboxReturn ==
    /\ pc = "executing"
    /\ \E o \in SandboxOutcomes :
         /\ sbx' = [stderr |-> o.stderr, code |-> o.code, cause |-> o.cause]
         /\ files' = files \cup o.files
         /\ mesh' = o.mesh
         /\ running' = IF o.cause = "timeout" THEN running ELSE running \ work_dir
    /\ pc' = "validating"
    /\ UNCHANGED <<req, attempt, last_error, feedback_msg, fc_code, extra_headers,
                   work_dir, dirs, nextDir, response, bgTasks, rmAttempted, sandboxCalls,
                   genCalls, feedback, prevFailure, classified, created, rmCalls,
                   lastRaise, bgError, cmd, jobs, configured, sent, service, extracted>>

\* exit-code check, validate_mesh and mesh metadata
Validate ==
    /\ pc = "validating"
    /\ LET stl == "output.stl" \in files
           bad == validate_mesh(stl, mesh)
           meta == _get_mesh_metadata(stl, mesh)
       IN  IF sbx.code # 0
           THEN /\ RaiseInGeneration(GeometryError(<<"FreeCAD Error:", " ">> \o sbx.stderr))
                /\ UNCHANGED extra_headers
           ELSE IF stl /\ bad # None
           THEN /\ RaiseInGeneration(Get(bad))
                /\ UNCHANGED extra_headers
           ELSE /\ extra_headers' = IF stl /\ meta # {} /\ extra_headers # None
                                    THEN Some(Get(extra_headers) \cup meta)
                                    ELSE extra_headers
                /\ pc' = "packaging"
                /\ UNCHANGED <<attempt, last_error, feedback_msg, work_dir, dirs, files, response,
                               rmAttempted, genCalls, feedback, prevFailure, classified,
                               sbx, mesh, fc_code, rmCalls, lastRaise>>
    /\ UNCHANGED <<req, nextDir, bgTasks, sandboxCalls, created, running, bgError, cmd, jobs, configured, sent, service, extracted>>

\* variant: the script is stored under the name it has in the scratch directory
ZipEntries_script_name(fl, script) ==
    (IF "output.step" \in fl THEN << <<"render.step", <<"step data">> >> >> ELSE <<>>)
    \o (IF "output.stl" \in fl THEN << <<"render.stl", <<"stl data">> >> >> ELSE <<>>)
    \o (IF "gen.py" \in fl THEN << <<"gen.py", script>> >> ELSE <<>>)

\* entries of render.zip, in the order they are written
ZipEntries(fl, script) ==
    (IF "output.step" \in fl THEN << <<"render.step", <<"step data">> >> >> ELSE <<>>)
    \o (IF "output.stl" \in fl THEN << <<"render.stl", <<"stl data">> >> >> ELSE <<>>)
    \o (IF "gen.py" \in fl THEN << <<"model_gen.py", script>> >> ELSE <<>>)

\* the file delivered for a single-file format
ResultFile(fmt, fl) ==
    IF fmt = "step" /\ "output.step" \in fl THEN "output.step" ELSE "output.stl"

\* headers of the FileResponse
ResponseHeaders(extra) ==
    {<<"X-Render-Duration", "t">>} \cup (IF extra # None THEN Get(extra) ELSE {})

\* variant: the response is built and no cleanup is scheduled
Deliver_no_cleanup(file, filename, entries) ==
    /\ bgTasks' = bgTasks
    /\ Finish(FileResponse(<<ToString(Get(work_dir)), file>>, filename,
                           ResponseHeaders(extra_headers), entries))
    /\ sbx' = NoResult
    /\ mesh' = NoMesh
    /\ UNCHANGED <<attempt, last_error, feedback_msg, work_dir, dirs, rmAttempted,
                   genCalls, feedback, prevFailure, classified, fc_code, rmCalls,
                   lastRaise>>

\* variant: the handler removes the scratch directory itself before it returns
Deliver_remove_first(file, filename, entries) ==
    /\ bgTasks' = bgTasks
    /\ Finish(FileResponse(<<ToString(Get(work_dir)), file>>, filename,
                           ResponseHeaders(extra_headers), entries))
    /\ sbx' = NoResult
    /\ mesh' = NoMesh
    /\ dirs' = dirs \ work_dir
    /\ rmAttempted' = rmAttempted \cup work_dir
    /\ rmCalls' = rmCalls + 1
    /\ UNCHANGED <<attempt, last_error, feedback_msg, work_dir, genCalls, feedback,
                   prevFailure, classified, fc_code, lastRaise>>

\* the response is built and the cleanup of the scratch directory is scheduled
Deliver(file, filename, entries) ==
    /\ bgTasks' = Append(bgTasks, Get(work_dir))
    /\ Finish(FileResponse(<<ToString(Get(work_dir)), file>>, filename,
                           ResponseHeaders(extra_headers), entries))
    /\ sbx' = NoResult
    /\ mesh' = NoMesh
    /\ UNCHANGED <<attempt, last_error, feedback_msg, work_dir, dirs, rmAttempted,
                   genCalls, feedback, prevFailure, classified, fc_code, rmCalls,
                   lastRaise>>

\* packaging of the output and the response
Package ==
    /\ pc = "packaging"
    /\ LET d == Get(work_dir)
       IN  IF req.format \in {"zip", "both"}
           THEN \E written \in BOOLEAN :
                  IF written
                  THEN /\ files' = files \cup {"render.zip"}
                       /\ Deliver("render.zip", <<"render_", ToString(d), ".zip">>,
                                  ZipEntries(files, fc_code))
                  ELSE /\ RaiseInGeneration(Exc("OSError", 0, ArchiveErrorText))
                       /\ UNCHANGED bgTasks
           ELSE IF ResultFile(req.format, files) \in files
           THEN /\ Deliver(ResultFile(req.format, files), <<"render.", req.format>>, <<>>)
                /\ UNCHANGED files
           ELSE /\ RaiseInGeneration(HTTPException(500,
                                        <<"Output file missing from container">>))
                /\ UNCHANGED bgTasks
    /\ UNCHANGED <<req, extra_headers, nextDir, sandboxCalls, created, running, bgError, cmd, jobs, configured, sent, service, extracted>>

\* the server sends the FileResponse the handler returned: the file at its path is
\* read for the body, and the background tasks of the response run after that
SendResponse ==
    /\ pc = "done"
    /\ sent = "no"
    /\ response # None
    /\ Get(response).kind = "file"
    /\ sent' = IF work_dir \subseteq dirs /\ Get(response).path[2] \in files
               THEN "ok" ELSE "missing"
    /\ UNCHANGED <<req, pc, attempt, last_error, feedback_msg, fc_code, extra_headers,
                   work_dir, dirs, files, nextDir, sbx, mesh, response, bgTasks,
                   rmAttempted, sandboxCalls, genCalls, feedback, prevFailure, classified,
                   created, running, rmCalls, lastRaise, bgError, cmd, jobs, configured, service, extracted>>

\* cleanup_workdir runs as a background task after the response
BackgroundCleanup ==
    /\ pc = "done"
    /\ sent # "no"
    /\ bgTasks # <<>>
    /\ rmAttempted' = rmAttempted \cup {Head(bgTasks)}
    /\ rmCalls' = rmCalls + 1
    /\ \E removed \in BOOLEAN :
         /\ dirs' = IF removed THEN dirs \ {Head(bgTasks)} ELSE dirs
         /\ files' = IF removed THEN {} ELSE files
         /\ bgError' = cleanup_workdir(removed)
    /\ bgTasks' = Tail(bgTasks)
    /\ UNCHANGED <<req, pc, attempt, last_error, feedback_msg, fc_code, extra_headers,
                   work_dir, nextDir, sbx, mesh, response, sandboxCalls, genCalls,
                   feedback, prevFailure, classified, created, running, lastRaise, cmd, jobs, configured, sent, service, extracted>>

\* a container that outlived the await of its run ends by itself
ContainerExit ==
    /\ \E c \in running :
         /\ work_dir # Some(c) \/ pc # "executing"
         /\ running' = running \ {c}
    /\ UNCHANGED <<req, pc, attempt, last_error, feedback_msg, fc_code, extra_headers,
                   work_dir, dirs, files, nextDir, sbx, mesh, response, bgTasks,
                   rmAttempted, sandboxCalls, genCalls, feedback, prevFailure, classified,
                   created, rmCalls, lastRaise, bgError, cmd, jobs, configured, sent, service, extracted>>

Next ==
    \/ GenerateStart
    \/ PipelineReturn
    \/ RenderStart
    \/ SandboxReturn
    \/ Validate
    \/ Package
    \/ SendResponse
    \/ BackgroundCleanup
    \/ ContainerExit

Spec == Init /\ [][Next]_vars

\* one step of the endpoint handler itself
HandlerStep ==
    \/ GenerateStart
    \/ RenderStart
    \/ PipelineReturn
    \/ SandboxReturn
    \/ Validate
    \/ Package

\* the positions of a handler
Positions == {"request", "generating", "executing", "validating", "packaging", "done"}

\* the handler leaves its position: what every step of the handler does, and what only
\* a step of the handler does (the background task and a container ending leave it)
HandlerAdvances == pc # "done" /\ \E p \in Positions \ {pc} : pc' = p

\* The handler as the event loop runs it: a handler that has not ended takes its next
\* step.  The request is dispatched, every model-service call returns, the await of
\* the sandbox run ends (by the exit of the subprocess or by the timeout of
\* asyncio.wait_for) and the synchronous validation and packaging run on.
\* Nothing is assumed of the background task or of containers left running.
LiveSpec == Init /\ [][Next]_vars /\ WF_pc(HandlerAdvances)

\* ------------------------------------------------------------------
\* The error classifier on its own: a text is drawn, the classifier is called
\* ------------------------------------------------------------------

\* longest text drawn, in atoms
MaxTextLen == 3

\* the atoms the rule patterns are made of, a neutral word and the line break
TextAtoms ==
    {"\n", "ValueError:", "apply_", "draft", " failed", "BEFORE", "null shape",
     "fuse_objects", "Fillet", "too large", "not watertight", "empty", "make", "box"}

RECURSIVE TextsOfLen(_)
TextsOfLen(n) ==
    IF n = 0 THEN {<<>>}
    ELSE {Append(t, a) : t \in TextsOfLen(n - 1), a \in TextAtoms}

\* the diagnostic texts handed to the classifier
DiagnosticTexts ==
    UNION {TextsOfLen(n) : n \in 0..MaxTextLen}
    \cup {Filler, Filler \o <<"empty">>, <<"empty", "\n">> \o Filler}

\* the variables the classifier does not touch
unclassified == <<req, pc, attempt, last_error, feedback_msg, fc_code, extra_headers,
                  work_dir, dirs, files, nextDir, mesh, response, bgTasks, rmAttempted,
                  sandboxCalls, genCalls, feedback, prevFailure, created, running,
                  rmCalls, lastRaise, bgError, cmd, jobs, configured, sent, service, extracted>>

ClassifierInit ==
    /\ \E t \in DiagnosticTexts : sbx = [stderr |-> t, code |-> 1, cause |-> "exit"]
    /\ classified = None
    /\ req = [endpoint |-> "none", gemini_api_key |-> None, previous_code |-> None,
              format |-> "stl", scad_code |-> <<>>]
    /\ pc = "classify"
    /\ attempt = 0
    /\ last_error = None
    /\ feedback_msg = None
    /\ fc_code = <<>>
    /\ extra_headers = None
    /\ work_dir = None
    /\ dirs = {}
    /\ files = {}
    /\ nextDir = 0
    /\ mesh = NoMesh
    /\ response = None
    /\ bgTasks = <<>>
    /\ rmAttempted = {}
    /\ sandboxCalls = 0
    /\ genCalls = 0
    /\ feedback = None
    /\ prevFailure = None
    /\ created = {}
    /\ running = {}
    /\ rmCalls = 0
    /\ lastRaise = None
    /\ bgError = None
    /\ cmd = <<>>
    /\ sent = "no"
    /\ service = NoReply
    /\ extracted = None
    /\ jobs = <<>>
    /\ configured = None

\* agent_pipeline._parse_freecad_error(text) is called and returns
Classify ==
    /\ pc = "classify"
    /\ classified' = Some([attempt |-> attempt, arg |-> sbx.stderr,
                           hint |-> _parse_freecad_error(sbx.stderr)])
    /\ UNCHANGED sbx
    /\ UNCHANGED unclassified

ClassifierNext == Classify

ClassifierSpec == ClassifierInit /\ [][ClassifierNext]_vars

\* ------------------------------------------------------------------
\* The first stage of AgentPipeline.run on its own: an outcome of the model-service
\* call is drawn, _extract_spec handles it and run() goes on
\* ------------------------------------------------------------------

\* longest reply drawn, in atoms
MaxSpecLen == 3

\* JSON tokens, the markdown fence and a word of prose
SpecAtoms == {"{", "}", "[", "]", ":", "1", "\"features\"", "<fence>", "json", "Sure"}

RECURSIVE RepliesOfLen(_)
RepliesOfLen(n) ==
    IF n = 0 THEN {<<>>}
    ELSE {Append(t, a) : t \in RepliesOfLen(n - 1), a \in SpecAtoms}

\* replies of the model service to the extraction prompt
SpecReplies ==
    UNION {RepliesOfLen(n) : n \in 0..MaxSpecLen}
    \cup { <<"Sure", "\n", "<fence>", "json", "\n", "{", "\"type\"", ":", "\"custom\"", ",",
             "\"features\"", ":", "[", "{", "\"position\"", ":", "\"near\"", "}", "]",
             "}", "\n", "<fence>">>,
           <<"<fence>", "\n", "{", "\"features\"", ":", "[", "1", "]", "}", "<fence>">>,
           <<"{", "\"features\"", ":", "{", "\"x\"", ":", "1", "}", "}">>,
           <<"{", "\"constraints\"", ":", "[", "]", ",", "\"dimensions\"", ":", "{", "}", "}">>,
           <<"{", "\"dimensions\"", ":", "{", "\"x\"", ":", "1", ",", "}", "}">> }

\* outcomes of generate_content_async: it raises, the reply has no text (reading
\* response.text raises), or the reply has a text
ServiceCalls ==
    { [raises |-> TRUE, has_text |-> FALSE, text |-> <<>>, usage |-> NoUsage],
      [raises |-> FALSE, has_text |-> FALSE, text |-> <<>>,
       usage |-> [input |-> 1, output |-> 0]] }
    \cup
    { [raises |-> FALSE, has_text |-> TRUE, text |-> t,
       usage |-> [input |-> 1, output |-> Len(t)]] : t \in SpecReplies }

\* the constraints argument of run(): none, or one override
ConstraintArgs == {None, Some(<< <<"\"x\"", <<"num", "1">> >> >>)}

RECURSIVE DictUpdate(_, _)
\* {**d, **more} on the pairs of two dicts
DictUpdate(d, more) ==
    IF more = <<>> THEN d
    ELSE DictUpdate(DictSet(d, Head(more)[1], Head(more)[2]), Tail(more))

\* the constraint overrides of run(): any exception leaves spec as it was
ApplyConstraints(spec, constraints) ==
    IF constraints = None \/ Get(constraints) = <<>> THEN spec
    ELSE LET parsed == json_loads(spec) IN
         IF parsed = None \/ Get(parsed)[1] # "obj" THEN spec
         ELSE LET old == DictGet(Get(parsed)[2], "\"constraints\"", <<"obj", <<>> >>)
              IN  IF old[1] # "obj" THEN spec
                  ELSE json_dumps_indent(<<"obj",
                           DictSet(Get(parsed)[2], "\"constraints\"",
                                   <<"obj", DictUpdate(old[2], Get(constraints))>>)>>)

\* the variables the first stage does not touch
unextracted == <<req, attempt, last_error, feedback_msg, fc_code, extra_headers, work_dir,
                 dirs, files, nextDir, sbx, mesh, response, bgTasks, rmAttempted,
                 sandboxCalls, genCalls, feedback, prevFailure, classified, created,
                 running, rmCalls, lastRaise, bgError, cmd, jobs, configured, sent>>

ExtractorInit ==
    /\ service \in ServiceCalls
    /\ extracted = None
    /\ pc = "extract"
    /\ req = [endpoint |-> "none", gemini_api_key |-> None, previous_code |-> None,
              format |-> "stl", scad_code |-> <<>>]
    /\ attempt = 0
    /\ last_error = None
    /\ feedback_msg = None
    /\ fc_code = <<>>
    /\ extra_headers = None
    /\ work_dir = None
    /\ dirs = {}
    /\ files = {}
    /\ nextDir = 0
    /\ sbx = NoResult
    /\ mesh = NoMesh
    /\ response = None
    /\ bgTasks = <<>>
    /\ rmAttempted = {}
    /\ sandboxCalls = 0
    /\ genCalls = 0
    /\ feedback = None
    /\ prevFailure = None
    /\ classified = None
    /\ created = {}
    /\ running = {}
    /\ rmCalls = 0
    /\ lastRaise = None
    /\ bgError = None
    /\ cmd = <<>>
    /\ jobs = <<>>
    /\ configured = None
    /\ sent = "no"

\* spec, usage1 = await self._extract_spec(user_prompt, files)
ExtractSpec ==
    /\ pc = "extract"
    /\ extracted' = Some(_extract_spec(service))
    /\ pc' = "extracted"
    /\ UNCHANGED service
    /\ UNCHANGED unextracted

\* run() after the first stage: an exception of _extract_spec leaves run(); else the
\* overrides are applied and _generate_code is called with the spec
RunContinues ==
    /\ pc = "extracted"
    /\ IF Get(extracted).raised
       THEN pc' = "failed" /\ UNCHANGED extracted
       ELSE \E constraints \in ConstraintArgs :
              /\ extracted' = Some([Get(extracted) EXCEPT
                                       !.text = ApplyConstraints(@, constraints)])
              /\ pc' = "code"
    /\ UNCHANGED service
    /\ UNCHANGED unextracted

ExtractorNext == ExtractSpec \/ RunContinues

ExtractorSpec == ExtractorInit /\ [][ExtractorNext]_vars

\* ------------------------------------------------------------------
\* Two /generate requests served by one process.  A handler runs without
\* interruption between two awaits; the awaits are the model-service calls of
\* _extract_spec and _generate_code and the sandbox run.
\* ------------------------------------------------------------------

Jobs == {1, 2}

\* credentials the model service accepts
ValidKeys == {"k1", "k2"}

\* the variables the concurrent handlers do not touch
unshared == <<req, pc, attempt, last_error, feedback_msg, fc_code, extra_headers,
              work_dir, files, sbx, mesh, response, bgTasks, rmAttempted,
              sandboxCalls, genCalls, feedback, prevFailure, classified, running,
              rmCalls, lastRaise, bgError, cmd, sent, service, extracted>>

NewJob(key) ==
    [pc |-> "request", key |-> key, attempt |-> 0, client |-> None, pending |-> None,
     used |-> {}, feedback |-> None, dir |-> None, outcome |-> "none"]

TwoJobsInit ==
    /\ \E k2 \in {"k2", "bad"} : jobs = [j \in Jobs |-> NewJob(IF j = 1 THEN "k1" ELSE k2)]
    /\ configured = None
    /\ nextDir = 0
    /\ created = {}
    /\ dirs = {}
    /\ req = [endpoint |-> "generate", gemini_api_key |-> None, previous_code |-> None,
              format |-> "stl", scad_code |-> <<>>]
    /\ pc = "serving"
    /\ attempt = 0
    /\ last_error = None
    /\ feedback_msg = None
    /\ fc_code = <<>>
    /\ extra_headers = None
    /\ work_dir = None
    /\ files = {}
    /\ sbx = NoResult
    /\ mesh = NoMesh
    /\ response = None
    /\ bgTasks = <<>>
    /\ rmAttempted = {}
    /\ sandboxCalls = 0
    /\ genCalls = 0
    /\ feedback = None
    /\ prevFailure = None
    /\ classified = None
    /\ running = {}
    /\ rmCalls = 0
    /\ lastRaise = None
    /\ bgError = None
    /\ cmd = <<>>
    /\ sent = "no"
    /\ service = NoReply
    /\ extracted = None

\* _extract_spec builds a new genai.GenerativeModel and awaits generate_content_async:
\* the client of a new model is made from the process-wide configuration in force at
\* the call.  The job record after the call, given the record before it.
ExtractCall(job, cfg) ==
    [job EXCEPT !.pc = "spec", !.pending = cfg, !.used = @ \cup cfg]

\* the handler of job j starts: AgentPipeline(api_key) calls genai.configure, the loop
\* is entered and run() reaches the await in _extract_spec
JobStart(j) ==
    /\ jobs[j].pc = "request"
    /\ configured' = Some(jobs[j].key)
    /\ jobs' = [jobs EXCEPT ![j] = ExtractCall(@, Some(jobs[j].key))]
    /\ UNCHANGED <<nextDir, created, dirs>>
    /\ UNCHANGED unshared

\* _extract_spec returns (its errors are swallowed) and _generate_code awaits
\* chat.send_message_async on self.model, whose client is made from the process-wide
\* configuration at its first call and kept afterwards
JobSpecReturn(j) ==
    /\ jobs[j].pc = "spec"
    /\ LET cl == IF jobs[j].client = None THEN configured ELSE jobs[j].client
       IN  jobs' = [jobs EXCEPT ![j].pc = "code", ![j].client = cl, ![j].pending = cl,
                                ![j].used = @ \cup cl]
    /\ UNCHANGED <<configured, nextDir, created, dirs>>
    /\ UNCHANGED unshared

\* send_message_async returns: with a credential the service rejects it raises and
\* the exception ends the handler; else the script is handed to the sandbox, which
\* draws an identifier and creates the scratch directory
JobCodeReturn(j) ==
    /\ jobs[j].pc = "code"
    /\ IF Get(jobs[j].pending) \notin ValidKeys
       THEN /\ jobs' = [jobs EXCEPT ![j].pc = "done", ![j].outcome = "service_error",
                                    ![j].pending = None]
            /\ UNCHANGED <<nextDir, created, dirs>>
       ELSE LET d == uuid4(nextDir) IN
            /\ jobs' = [jobs EXCEPT ![j].pc = "executing", ![j].dir = Some(d),
                                    ![j].pending = None]
            /\ nextDir' = nextDir + 1
            /\ created' = created \cup {d}
            /\ dirs' = dirs \cup {d}
    /\ UNCHANGED configured
    /\ UNCHANGED unshared

\* the sandbox run of job j ends: the attempt is delivered, or it fails, its
\* directory is removed and the loop goes on to the next attempt or gives up
JobSandboxReturn(j) ==
    /\ jobs[j].pc = "executing"
    /\ \E ok \in BOOLEAN :
         IF ok
         THEN jobs' = [jobs EXCEPT ![j].pc = "done", ![j].outcome = "delivered",
                                   ![j].dir = None]
         ELSE IF RetryAllowed(jobs[j].attempt)
         THEN jobs' = [jobs EXCEPT ![j] =
                         ExtractCall([@ EXCEPT !.attempt = NextAttempt(@),
                                               !.feedback = Some(jobs[j].attempt),
                                               !.dir = None], configured)]
         ELSE jobs' = [jobs EXCEPT ![j].pc = "done", ![j].outcome = "exhausted",
                                   ![j].dir = None]
    /\ dirs' = dirs \ jobs[j].dir
    /\ UNCHANGED <<configured, nextDir, created>>
    /\ UNCHANGED unshared

\* one step of the handler of job j
JobStep(j) ==
    \/ JobStart(j)
    \/ JobSpecReturn(j)
    \/ JobCodeReturn(j)
    \/ JobSandboxReturn(j)

TwoJobsNext == \E j \in Jobs : JobStep(j)

TwoJobsSpec == TwoJobsInit /\ [][TwoJobsNext]_vars

\* ------------------------------------------------------------------
\* Properties
\* ------------------------------------------------------------------

Done == pc = "done"
Delivered == response # None /\ Get(response).kind = "file"
IsGenerate == req.endpoint = "generate"

ExhaustedPrefix == <<"Generation failed after 3 attempts: ">>

\* the response is the error raised after the retry loop
BudgetExhausted ==
    /\ response # None
    /\ Get(response).kind = "error"
    /\ Get(response).type = "HTTPException"
    /\ StartsWith(Get(response).detail, ExhaustedPrefix)

\* C1: a /generate Job invokes the sandbox executor at most 3 times, and exactly
\* once when its first attempt is delivered
C1_SandboxAtMostThree ==
    IsGenerate =>
        /\ sandboxCalls <= 3
        /\ (Delivered /\ attempt = 0 => sandboxCalls = 1)

C1_Witness == IsGenerate /\ Delivered /\ attempt = 0 /\ sandboxCalls = 1

\* C2: once the sandbox executor has returned the timeout exit code in attempt n,
\* the Job is over: no generation call and no sandbox invocation follows
C2_TimeoutIsFatal ==
    \A f \in prevFailure :
        f.cause = "timeout" =>
            /\ Done
            /\ genCalls = f.attempt + 1
            /\ sandboxCalls = f.attempt + 1

\* C3: once launching or awaiting the docker subprocess has failed in attempt n,
\* the Job is over: no generation call and no sandbox invocation follows
C3_LaunchErrorIsFatal ==
    \A f \in prevFailure :
        f.cause = "launch_error" =>
            /\ Done
            /\ genCalls = f.attempt + 1
            /\ sandboxCalls = f.attempt + 1

DisallowedAtoms == {"subprocess", "os.system", "eval(", "exec(", "__import__", "os.popen"}

SecurityRejected ==
    /\ response # None
    /\ Get(response).type = "ValueError"
    /\ StartsWith(Get(response).detail, <<"Security: blocked pattern '">>)

\* C4: in a /generate Job no script holding a disallowed pattern is ever handed to
\* the sandbox executor, and a rejection on attempt 0 leaves zero sandbox invocations
C4_BlockedScriptNeverExecuted ==
    IsGenerate =>
        /\ \A i \in 1..Len(fc_code) : fc_code[i] \notin DisallowedAtoms
        /\ (SecurityRejected => Done /\ sandboxCalls = attempt)

C4_Witness == IsGenerate /\ SecurityRejected /\ attempt = 0 /\ sandboxCalls = 0

\* C5: no attempt is started after a fatal condition: every failure the retry loop
\* has handled while the Job goes on is a recoverable one
C5_FatalEndsJob ==
    ~Done => \A f \in prevFailure : f.cause \notin {"timeout", "launch_error"}

\* C6 as stated: every non-zero, non-timeout exit is passed to the classifier
C6_ExitAlwaysClassified ==
    \A f \in prevFailure :
        f.code \notin {0, TimeoutSentinel} =>
            /\ classified # None
            /\ Get(classified).attempt = f.attempt
            /\ Contains(Get(classified).arg, f.stderr)

\* C6 amended: a non-zero, non-timeout exit raises GeometryError("FreeCAD Error: " +
\* stderr) and consumes one attempt; below ordinal 2 that text is classified and the
\* next attempt is started with the hint; at ordinal 2 nothing is classified and the
\* Job ends with the budget-exhausted error
C6_ExitClassifiedBelowTwo ==
    \A f \in prevFailure :
        f.code \notin {0, TimeoutSentinel} =>
            /\ f.e = GeometryError(<<"FreeCAD Error:", " ">> \o f.stderr)
            /\ sandboxCalls >= f.attempt + 1
            /\ f.attempt < 2 =>
                 /\ classified # None
                 /\ Get(classified).attempt = f.attempt
                 /\ Get(classified).arg = <<"FreeCAD Error:", " ">> \o f.stderr
                 /\ attempt = f.attempt + 1
                 /\ genCalls = f.attempt + 2
                 /\ feedback = Some(Get(classified).hint)
            /\ f.attempt >= 2 =>
                 /\ \A c \in classified : c.attempt < f.attempt
                 /\ BudgetExhausted
                 /\ genCalls = 3

C6_Witness ==
    /\ pc = "generating"
    /\ attempt = 2
    /\ \E f \in prevFailure : f.code = 1 /\ f.cause = "exit" /\ f.stderr # <<>>

\* C7: while attempt n > 0 runs, the feedback its generation call received is the
\* hint classified from the failure of attempt n-1, and not the previous script
C7_FeedbackIsLastHint ==
    (IsGenerate /\ attempt > 0 /\ (~Done \/ Delivered)) =>
        /\ prevFailure # None
        /\ Get(prevFailure).attempt = attempt - 1
        /\ feedback = Some(_parse_freecad_error(Get(prevFailure).e.msg))
        /\ feedback # Some(PrevScript)

C7_Witness ==
    /\ IsGenerate
    /\ pc = "executing"
    /\ attempt = 2
    /\ req.previous_code # None

\* C8: the feedback of the generation call of attempt 0 is the supplied previous
\* script, and absent when none is supplied
C8_FirstAttemptFeedback ==
    (IsGenerate /\ genCalls = 1) =>
        /\ req.previous_code # None => feedback = req.previous_code
        /\ req.previous_code = None => feedback = None

C8_Witness ==
    IsGenerate /\ genCalls = 1 /\ pc = "generating" /\ feedback = Some(PrevScript)

\* C9: a third consecutive recoverable failure ends the Job with HTTP 400 whose
\* detail carries that third failure, after exactly three generation calls and
\* three sandbox invocations; the budget-exhausted error arises in no other way
C9_BudgetExhausted ==
    /\ \A f \in prevFailure :
         f.attempt = 2 =>
            /\ Done
            /\ BudgetExhausted
            /\ Get(response).status = 400
            /\ Get(response).detail = ExhaustedPrefix \o f.e.msg
            /\ genCalls = 3
            /\ sandboxCalls = 3
    /\ BudgetExhausted =>
            /\ sandboxCalls = 3
            /\ \E f \in prevFailure : f.attempt = 2

C9_Witness ==
    /\ BudgetExhausted
    /\ sandboxCalls = 3
    /\ Get(response).detail = ExhaustedPrefix \o <<"Generated mesh ", "has zero or negative volume.">>

HasRetryHeader == \E h \in Get(response).headers : h[1] = "X-Retry-Count"

\* C10: a delivered /generate response carries X-Retry-Count exactly when the
\* delivered attempt's ordinal is above 0, and its value is that ordinal, the
\* number of failed attempts before it
C10_RetryHeader ==
    (IsGenerate /\ Delivered) =>
        /\ HasRetryHeader <=> attempt > 0
        /\ \A h \in Get(response).headers :
             h[1] = "X-Retry-Count" =>
                /\ h[2] = ToString(attempt)
                /\ h[2] = ToString(sandboxCalls - 1)

C10_Witness == IsGenerate /\ Delivered /\ attempt = 2 /\ HasRetryHeader

\* the sandbox run of the current attempt has been started and its result is not yet
\* packaged or discarded
SandboxPhase == pc \in {"executing", "validating", "packaging"}

C12_TerminalOnce ==
    /\ [](/\ Done <=> response # None
          /\ Cardinality(response) <= 1
          /\ \A r \in response :
                /\ r.kind \in {"file", "error"}
                /\ r.kind = "file" <=> r.status = 200
                /\ r.kind = "error" <=> r.status \in {400, 500}
          /\ ~Done => bgTasks = <<>>)
    /\ [][Done =>
            /\ pc' = "done"
            /\ response' = response
            /\ attempt' = attempt
            /\ genCalls' = genCalls
            /\ sandboxCalls' = sandboxCalls
            /\ nextDir' = nextDir
            /\ created' = created
            /\ prevFailure' = prevFailure
            /\ Len(bgTasks') <= Len(bgTasks)]_vars

C12_Witness ==
    /\ Done
    /\ Delivered
    /\ attempt = 1
    /\ bgTasks = <<>>
    /\ rmCalls = 2

\* the attempt holds the result of a sandbox run that exited 0 and left output.stl
MeshToValidate == pc = "validating" /\ sbx.code = 0 /\ "output.stl" \in files

\* a step in which the handler validates that result
ValidatesMesh == MeshToValidate /\ pc' # pc

\* the mesh loads and violates a geometry check
MeshViolates ==
    /\ mesh.loadable
    /\ mesh.is_empty \/ ~mesh.is_watertight \/ mesh.volume <= 0

ValidationMessages ==
    { <<"Generated mesh ", "is ", "empty", ".">>,
      <<"Generated mesh ", "is ", "not watertight", " (non-manifold).">>,
      <<"Generated mesh ", "has zero or negative volume.">> }

\* C13: when the sandbox exited 0 and output.stl loads as a mesh that is empty, not
\* watertight or of zero or negative volume, the step that validates it raises a
\* GeometryError naming the violation and the attempt delivers nothing: a /generate
\* Job hands the error to the retry loop, which starts the next attempt below
\* ordinal 2 and reports the budget-exhausted failure at ordinal 2; a /render Job
\* ends with the error.  No attempt is ever packaged with such a mesh.
C13_BadMeshNeverDelivered ==
    /\ [](pc = "packaging" /\ "output.stl" \in files /\ mesh.loadable =>
            ~mesh.is_empty /\ mesh.is_watertight /\ mesh.volume > 0)
    /\ [][Delivered' /\ ~Delivered => pc = "packaging"]_vars
    /\ [][ValidatesMesh /\ MeshViolates =>
            /\ pc' \in {"generating", "done"}
            /\ ~Delivered'
            /\ \E r \in lastRaise' :
                  /\ r.e.type = "GeometryError"
                  /\ r.e.msg \in ValidationMessages
                  /\ mesh.is_watertight /\ ~mesh.is_empty =>
                        r.e.msg = <<"Generated mesh ", "has zero or negative volume.">>
                  /\ IsGenerate =>
                        /\ prevFailure' = Some([attempt |-> attempt, e |-> r.e,
                                                 cause |-> "exit", code |-> 0,
                                                 stderr |-> <<>>])
                        /\ attempt < 2 =>
                              pc' = "generating" /\ attempt' = attempt + 1
                        /\ attempt >= 2 => BudgetExhausted'
                  /\ ~IsGenerate =>
                        /\ Done'
                        /\ Get(response').kind = "error"
                        /\ Get(response').detail = r.e.msg]_vars

C13_Witness ==
    /\ IsGenerate
    /\ MeshToValidate
    /\ mesh.loadable /\ ~mesh.is_empty /\ mesh.is_watertight /\ mesh.volume = 0
    /\ attempt = 2

\* C14: when the sandbox exited 0 and output.stl cannot be loaded or analysed, the
\* step that validates it raises nothing: the attempt goes on to packaging with the
\* same ordinal, no generation call is made, nothing reaches the retry loop, no
\* removal is made and no outcome is recorded
C14_LoadErrorIsWarning ==
    [][ValidatesMesh /\ ~mesh.loadable =>
        /\ pc' = "packaging"
        /\ attempt' = attempt
        /\ genCalls' = genCalls
        /\ sandboxCalls' = sandboxCalls
        /\ prevFailure' = prevFailure
        /\ lastRaise' = lastRaise
        /\ last_error' = last_error
        /\ rmCalls' = rmCalls
        /\ response' = None
        /\ files' = files]_vars

C14_Witness ==
    /\ pc = "packaging"
    /\ "output.stl" \in files
    /\ mesh \in Meshes
    /\ ~mesh.loadable
    /\ IsGenerate

\* the file a single-file format asks for
RequestedFile(fmt) == IF fmt = "step" THEN "output.step" ELSE "output.stl"

\* C15: a delivered single-format response carries the file of the requested format
\* (output.step for step, output.stl for stl), never a file of the other format
\* under any filename: an attempt whose sandbox exited 0 without the requested file
\* is not delivered
C15_NoSubstitution ==
    (Delivered /\ req.format \in {"step", "stl"}) =>
        Get(response).path[2] = RequestedFile(req.format)

\* names of the entries of the delivered archive
EntryNames == [i \in 1..Len(Get(response).entries) |-> Get(response).entries[i][1]]

\* C16: a delivered zip archive of an attempt that produced output.step and
\* output.stl has exactly the three entries render.step, render.stl and
\* model_gen.py, whatever the scratch identifier, and model_gen.py holds the script
\* that was executed
C16_ZipEntries ==
    (Delivered /\ req.format = "zip" /\ OutputFiles \subseteq files) =>
        /\ EntryNames = <<"render.step", "render.stl", "model_gen.py">>
        /\ Get(response).entries[1][2] = <<"step data">>
        /\ Get(response).entries[2][2] = <<"stl data">>
        /\ Get(response).entries[3][2] = fc_code
        /\ fc_code # <<>>
        /\ IsGenerate => \E reply \in ReplyTexts :
                            /\ ~_generate_code(reply).raised
                            /\ fc_code = _generate_code(reply).code
        /\ ~IsGenerate => fc_code = req.scad_code

C16_Witness ==
    /\ Delivered
    /\ req.format = "zip"
    /\ OutputFiles \subseteq files
    /\ IsGenerate
    /\ Get(work_dir) = 2

\* the Job is over and no scheduled task is left
Settled == Done /\ bgTasks = <<>>

\* the Job ended because creating the scratch directory or writing gen.py raised
PrepFailed ==
    /\ response # None
    /\ Get(response).type = "OSError"
    /\ Get(response).detail \in {MkdirErrorText, WriteErrorText}

\* number of sandbox invocations that returned a scratch directory
DirsReturned == sandboxCalls - (IF PrepFailed THEN 1 ELSE 0)

\* C17 as stated: over the whole Job the cleanup is invoked exactly once (read for
\* the Jobs to which a sandbox invocation returned a scratch directory)
C17_CleanupOncePerJob ==
    /\ rmCalls + Len(bgTasks) <= 1
    /\ (Settled /\ DirsReturned > 0) => rmCalls = 1

\* C17 amended: the cleanup is invoked exactly once for every scratch directory a
\* sandbox invocation returned, hence once per attempt and not once per Job: at
\* once when the attempt fails, as the scheduled task when it is delivered, never
\* twice for one directory; a settled Job has made as many removals as sandbox
\* invocations returned, between 0 and 3
C17_CleanupOncePerDirectory ==
    /\ rmCalls = Cardinality(rmAttempted)
    /\ rmAttempted \subseteq created
    /\ Len(bgTasks) <= 1
    /\ \A i \in 1..Len(bgTasks) : bgTasks[i] \in created \ rmAttempted
    /\ rmCalls + Len(bgTasks) + (IF SandboxPhase THEN 1 ELSE 0) = DirsReturned
    /\ Settled => rmCalls = DirsReturned
    /\ rmCalls <= (IF IsGenerate THEN 3 ELSE 1)

C17_Witness == Settled /\ Delivered /\ rmCalls = 3 /\ sandboxCalls = 3

\* the directories whose cleanup is scheduled
Scheduled == {bgTasks[i] : i \in 1..Len(bgTasks)}

\* C18: every scratch directory that was created and is no longer the directory of
\* the running attempt has had its removal attempted or scheduled; in particular a
\* terminal Job has no created directory without a removal attempt
C18_RemovalAlwaysAttempted ==
    \A d \in created :
        \/ d \in rmAttempted
        \/ d \in Scheduled
        \/ SandboxPhase /\ work_dir = Some(d)

\* what leaves _run_freecad_generation when e was raised inside its try block
Reraised(e) ==
    IF e.type \in {"GeometryError", "HTTPException"} THEN e ELSE HTTPException(500, e.msg)

\* C19: whether or not the scratch directory could be deleted, the outcome is the
\* one of the attempt.  On a failure path the exception that reaches the endpoint
\* handler is the one raised in the try block (a GeometryError or HTTPException as
\* raised, anything else as HTTP 500 with its text): the retry loop of /generate
\* receives that GeometryError, every other case ends the Job with that error.  On
\* the success path the scheduled removal leaves the delivered response as it is,
\* and no deletion error leaves the background task.
C19_DeletionFailureIsSilent ==
    /\ [](/\ bgError = None
          /\ \A r \in lastRaise :
                IF IsGenerate /\ r.e.type = "GeometryError"
                THEN /\ prevFailure # None
                     /\ Get(prevFailure).e = r.e
                     /\ last_error = Some(r.e)
                     /\ Get(prevFailure).attempt >= 2 =>
                            /\ BudgetExhausted
                            /\ Get(response).detail = ExhaustedPrefix \o r.e.msg
                ELSE /\ Done
                     /\ response = Some(ErrorResponse(Reraised(r.e))))
    /\ [][(Done /\ rmCalls' # rmCalls) =>
            /\ Delivered
            /\ response' = response
            /\ bgError' = None]_vars

C19_Witness ==
    /\ Done
    /\ \E r \in lastRaise : ~r.removed /\ r.e.type = "OSError"
    /\ \E d \in rmAttempted : d \in dirs

\* C20: a container runs only while its own sandbox invocation is awaited: once
\* _run_docker_execution has returned, with the timeout result in particular, the
\* container it launched is not running, neither while the result is handled and
\* the scratch directory removed nor during a later attempt or after the Job
C20_TimeoutKillsContainer ==
    \A c \in running : pc = "executing" /\ work_dir = Some(c)

\* the rules of the classifier in the order the claim gives: draft, null shape,
\* fuse failed, fillet too large, not watertight, empty, makefillet
RuleCount == 7

RuleMatches(i, s) ==
    CASE i = 1 -> \/ Contains(s, <<"apply_", "draft", " failed">>)
                  \/ (Contains(s, <<"draft">>) /\ Contains(s, <<"before">>))
      [] i = 2 -> Contains(s, <<"null shape">>)
      [] i = 3 -> Contains(s, <<"fuse_objects", " failed">>)
      [] i = 4 -> Contains(s, <<"fillet">>) /\ Contains(s, <<"too large">>)
      [] i = 5 -> Contains(s, <<"not watertight">>)
      [] i = 6 -> Contains(s, <<"empty">>)
      [] i = 7 -> Contains(s, <<"make", "fillet">>)

RuleHint(i, s) ==
    CASE i = 1 -> HintDraft
      [] i = 2 -> HintNullShape
      [] i = 3 -> HintFusion
      [] i = 4 -> <<"FILLET ERROR: ">> \o s \o <<". Reduce fillet radius.">>
      [] i = 5 -> HintNonManifold
      [] i = 6 -> HintEmpty
      [] i = 7 -> HintMakeFillet

\* the rules that match s, and the first of them
Matching(s) == {i \in 1..RuleCount : RuleMatches(i, s)}
FirstMatching(s) == CHOOSE i \in Matching(s) : \A j \in Matching(s) : i <= j

\* the hint is the generic fallback
IsGeneric(hint) == hint # <<>> /\ hint[1] = "ERROR: "

C22_WholeTextRules ==
    \A c \in classified :
        LET s == Lower(c.arg) IN
        /\ Matching(s) = {} <=> IsGeneric(c.hint)
        /\ Matching(s) # {} => c.hint[1] = RuleHint(FirstMatching(s), s)[1]

\* C22 amended: the rules are evaluated on one line of the lower-cased text, the
\* last line that holds "ValueError:" or else the last line of the stripped text;
\* a pattern on any other line is not seen.  The generic hint is returned exactly
\* when no rule matches that line, and it quotes the first 300 characters of the
\* text as given (not lower-cased)
C22_ErrorLineRules ==
    \A c \in classified :
        LET lines == SplitOn(Strip(c.arg), <<"\n">>)
            s == Lower(ErrorLine(c.arg))
        IN
        /\ \E i \in 1..Len(lines) :
              /\ ErrorLine(c.arg) = lines[i]
              /\ \A j \in (i + 1)..Len(lines) : ~Contains(lines[j], <<"ValueError:">>)
              /\ Contains(lines[i], <<"ValueError:">>) \/ i = Len(lines)
        /\ Matching(s) = {} <=> IsGeneric(c.hint)
        /\ Matching(s) # {} => c.hint[1] = RuleHint(FirstMatching(s), s)[1]
        /\ IsGeneric(c.hint) =>
              /\ Len(c.hint) <= 1 + ExcerptLen
              /\ Len(c.hint) = 1 + Min(Len(c.arg), ExcerptLen)
              /\ \A k \in 2..Len(c.hint) : c.hint[k] = c.arg[k - 1]

C22_Witness ==
    \E c \in classified :
        /\ IsGeneric(c.hint)
        /\ Matching(Lower(c.arg)) # {}
        /\ Len(c.arg) > ExcerptLen

\* the failure handled last is attempt 0's sandbox run, which exited non-zero with
\* the fillet-radius message on its error line
FilletFailureAtZero ==
    \E f \in prevFailure :
        f.attempt = 0 /\ f.cause = "exit" /\ f.code # 0 /\ f.stderr = FilletStderr

\* C23: after attempt 0 failed with the fillet-radius message, the generation call of
\* attempt 1 receives the fillet hint: it starts with FILLET ERROR, ends with the
\* instruction to reduce the fillet radius and quotes the error line with the
\* reported maximum safe radius; and when attempt 1 is delivered the response
\* carries X-Retry-Count 1
C23_FilletScenario ==
    (IsGenerate /\ FilletFailureAtZero) =>
        /\ attempt = 1
        /\ genCalls = 2
        /\ \E h \in feedback :
              /\ h[1] = "FILLET ERROR: "
              /\ h[Len(h)] = ". Reduce fillet radius."
              /\ Contains(h, <<"too large", " for edge length 4.00. ", "max", " safe radius is 1.99">>)
        /\ Delivered => <<"X-Retry-Count", "1">> \in Get(response).headers

C23_Witness == IsGenerate /\ FilletFailureAtZero /\ Delivered /\ req.previous_code # None

IsRender == req.endpoint = "render"

\* C24: a /render Job makes no generation call and keeps ordinal 0 without feedback,
\* classification or retry; with script text it invokes the sandbox executor once,
\* as its first step, and never again; and whatever is raised by that single
\* attempt (non-zero exit, mesh violation, missing output, archive error) ends the
\* Job with that error
C24_RenderSingleAttempt ==
    IsRender =>
        /\ genCalls = 0
        /\ attempt = 0
        /\ feedback = None /\ feedback_msg = None
        /\ classified = None /\ prevFailure = None /\ last_error = None
        /\ sandboxCalls = (IF pc # "request" /\ req.scad_code # <<>> THEN 1 ELSE 0)
        /\ \A r \in lastRaise :
              /\ Done
              /\ Get(response).kind = "error"
              /\ Get(response).detail = r.e.msg

C24_Witness ==
    /\ IsRender
    /\ Done
    /\ sandboxCalls = 1
    /\ \E r \in lastRaise : r.e = GeometryError(<<"Generated mesh ", "is ", "not watertight", " (non-manifold).">>)

\* the request lacks what its endpoint requires
LacksCredential == IsGenerate /\ req.gemini_api_key = None
LacksScript == IsRender /\ req.scad_code = <<>>

\* the outcome is an HTTPException with status 400
ClientError ==
    /\ response # None
    /\ Get(response).type = "HTTPException"
    /\ ~Get(response).raw
    /\ Get(response).status = 400

\* C25: a /generate request without credential and a /render request with empty
\* script text end in their first step with HTTP 400; at no time has such a Job
\* made a generation call, invoked the sandbox executor or created a directory
C25_ClientErrorBeforeWork ==
    (LacksCredential \/ LacksScript) =>
        /\ genCalls = 0
        /\ sandboxCalls = 0
        /\ created = {}
        /\ cmd = <<>>
        /\ pc \in {"request", "done"}
        /\ Done => ClientError
        /\ (Done /\ LacksCredential) =>
              Get(response).detail = <<"gemini_api_key is required in request body">>
        /\ (Done /\ LacksScript) => Get(response).detail = <<"scad_code is required">>

C25_Witness == LacksCredential /\ Done /\ ClientError /\ genCalls = 0

\* C26: a failure that ends a handler is an HTTPException with status and detail:
\* no GeometryError and no exception of the generation call (the security-filter
\* ValueError, a model-service error) ends a Job unmapped, and a /generate Job is
\* not ended by the GeometryError of an attempt below ordinal 2
C26_EveryFailureMapped ==
    \A r \in response :
        r.kind = "error" =>
            /\ r.type \in {"GeometryError", "ValueError", "Exception"} =>
                  ~r.raw /\ r.type = "HTTPException"
            /\ (IsGenerate /\ BudgetExhausted) => \E f \in prevFailure : f.attempt = 2


\* C27: under every interleaving of two Jobs, every model-service call made for a
\* Job carries the credential that Job was requested with (no state is shared
\* through the process-wide genai.configure).
C27_OwnCredentialOnly ==
    \A j \in Jobs : jobs[j].used \subseteq {jobs[j].key}

\* C28: a Job that has not ended can always take its next step whatever the other
\* Job is waiting for, and the outcome of a Job does not depend on the other Job:
\* a Job requested with a credential the service accepts never ends with a
\* model-service error.
C28_JobsIndependent ==
    /\ \A j \in Jobs : jobs[j].pc # "done" => ENABLED JobStep(j)
    /\ \A j \in Jobs : jobs[j].outcome = "service_error" => jobs[j].key \notin ValidKeys

\* the directories of the sandbox runs now pending
PendingDirs(j) == IF jobs[j].pc = "executing" THEN jobs[j].dir ELSE None

AllocatesFreshDir ==
    created' # created =>
        /\ \E d \in created' : d \notin created /\ created' = created \cup {d}
        /\ nextDir' = nextDir + 1

\* C29: every sandbox invocation allocates exactly one scratch directory, under an
\* identifier no earlier invocation was given: two pending invocations (of two Jobs)
\* never share a directory, successive attempts get different directories, and the
\* identifier of a removed directory is never given out again.
C29_FreshScratchDirectory ==
    /\ [](/\ Cardinality(created) = nextDir
          /\ dirs \subseteq created
          /\ \A j \in Jobs : PendingDirs(j) \subseteq dirs
          /\ \A j, k \in Jobs : j # k => PendingDirs(j) \cap PendingDirs(k) = {})
    /\ [][AllocatesFreshDir]_vars

\* both Jobs have a sandbox run pending, one of them in a later attempt whose
\* earlier directory has been removed
C29_Witness ==
    /\ \A j \in Jobs : jobs[j].pc = "executing"
    /\ jobs[1].attempt = 1
    /\ Cardinality(created) = 3
    /\ Cardinality(dirs) = 2


\* the value given with option name in command c, if any
OptionValues(c, name) == {c[i + 1] : i \in {n \in 1..(Len(c) - 1) : c[n] = <<name>>}}

HasFlag(c, name) == \E i \in 1..Len(c) : c[i] = <<name>>

\* the volume mounts of command c that are not read-only
WritableMounts(c) == {m \in OptionValues(c, "-v") : m[Len(m)] # ":ro"}

Confined(c, d) ==
    /\ c[1] = <<"docker">> /\ c[2] = <<"run">>
    /\ OptionValues(c, "--network") = {<<"none">>}
    /\ OptionValues(c, "--cpus") = {<<"2.0">>}
    /\ OptionValues(c, "--memory") = {<<"2048m">>}
    /\ OptionValues(c, "--user") = {<<"1000:1000">>}
    /\ HasFlag(c, "--read-only")
    /\ ~HasFlag(c, "--privileged")
    /\ OptionValues(c, "--tmpfs") = {<<"/tmp", ":rw", ",size=512m">>}
    /\ WritableMounts(c) = {<<"work_dir/", ToString(d), ":/workspace", ":rw">>}
    /\ <<"lib_path", ":/app/lib", ":ro">> \in OptionValues(c, "-v")
    /\ c[Len(c) - 1] = <<"DOCKER_RUNNER_IMAGE">>

\* C30: every container launch, from either endpoint and in every attempt, has
\* networking disabled, CPU and memory ceilings, a non-root user, a read-only root
\* filesystem whose only writable places are the scratch mount of this invocation
\* and a size-bounded /tmp, and the helper library mounted read-only; no container
\* runs that was launched otherwise.
C30_ConfinedLaunch ==
    /\ [](/\ running # {} => cmd # <<>>
          /\ pc = "executing" => work_dir # None /\ Confined(cmd, Get(work_dir))
          /\ cmd # <<>> => \E d \in created : Confined(cmd, d))
    /\ [][cmd' # cmd => pc' = "executing" /\ Confined(cmd', Get(work_dir'))]_vars

\* the third attempt of a /generate Job is running in its container
C30_Witness ==
    /\ IsGenerate
    /\ pc = "executing"
    /\ attempt = 2
    /\ Get(work_dir) \in running
    /\ Confined(cmd, Get(work_dir))


\* C31: provided every model-service call returns, every Job eventually reaches a
\* terminal state (artifact delivered, fatal failure or budget exhausted): the wait
\* for the sandbox ends and the loop has at most three iterations, so no Job stays
\* forever in generating, executing, validating or the failure handling.
C31_JobTerminates ==
    /\ [][HandlerStep <=> HandlerAdvances]_vars
    /\ [](pc \in Positions)
    /\ <>(pc = "done" /\ response # None)

\* a Job that used the whole budget and ended
C31_Witness ==
    /\ pc = "done"
    /\ IsGenerate
    /\ genCalls = 3
    /\ sandboxCalls = 3
    /\ response # None


\* the checks of validate_mesh in their order, as the messages of their errors
MeshChecks(m) ==
    << <<m.is_empty, <<"Generated mesh ", "is ", "empty", ".">> >>,
       <<~m.is_watertight, <<"Generated mesh ", "is ", "not watertight", " (non-manifold).">> >>,
       <<m.volume <= 0, <<"Generated mesh ", "has zero or negative volume.">> >> >>

\* the positions of the checks that mesh m fails
FailingChecks(m) == {i \in 1..Len(MeshChecks(m)) : MeshChecks(m)[i][1]}

\* the handler validates the result of a sandbox run that exited 0
ValidatesResult == pc = "validating" /\ sbx.code = 0 /\ pc' # pc

\* C32: validate_mesh applies its checks in the order file exists, mesh not empty,
\* mesh watertight, volume positive, and stops at the first that fails: the
\* GeometryError it raises names the first failing check (empty before not
\* watertight, not watertight before the volume), and without the file it raises
\* nothing and the attempt goes on to packaging.
C32_FirstFailingCheck ==
    [][ValidatesResult =>
        /\ "output.stl" \notin files => pc' = "packaging" /\ lastRaise' = lastRaise
        /\ ("output.stl" \in files /\ mesh.loadable) =>
              IF FailingChecks(mesh) = {}
              THEN mesh.faces > 0 => pc' = "packaging" /\ lastRaise' = lastRaise
              ELSE \E i \in FailingChecks(mesh) :
                     /\ \A k \in FailingChecks(mesh) : i <= k
                     /\ \E r \in lastRaise' : r.e = GeometryError(MeshChecks(mesh)[i][2])
                     /\ pc' # "packaging"]_vars

\* a /render Job ended with the error of a mesh that is empty (and so neither
\* watertight nor of positive volume)
C32_Witness ==
    /\ ~IsGenerate
    /\ pc = "done"
    /\ \E r \in lastRaise : r.e = GeometryError(<<"Generated mesh ", "is ", "empty", ".">>)
    /\ \E r \in response : r.detail = <<"Generated mesh ", "is ", "empty", ".">>


\* the sandbox run of the attempt exited 0 and left neither output.step nor output.stl
NothingUsable == sbx.code = 0 /\ files \cap OutputFiles = {}

\* C33: when the sandbox exits 0 but produced neither output.step nor output.stl,
\* the Job ends with a server error whatever format was requested, zip included:
\* the packaging step of such an attempt delivers no file and no archive.
C33_NothingUsableIsFatal ==
    [][(pc = "packaging" /\ NothingUsable /\ pc' # pc) =>
         /\ pc' = "done"
         /\ ~Delivered'
         /\ Get(response').kind = "error"
         /\ Get(response').status = 500]_vars


\* the formats the interface documents
FormatEnumeration == {"stl", "step", "zip"}

\* C34: every Job that reaches the sandbox executor or the packager has a requested
\* format among stl, step and zip: a request naming another format is neither
\* executed nor packaged.
C34_FormatInEnumeration ==
    pc \in {"executing", "validating", "packaging"} \/ Delivered =>
        req.format \in FormatEnumeration

\* C35: every script handed to the sandbox executor, from /generate or /render,
\* holds none of the disallowed patterns: no container runs a script with
\* subprocess, os.system, eval(, exec(, __import__ or os.popen.
C35_EveryScriptScanned ==
    (pc = "executing" /\ work_dir \subseteq running) =>
        FirstBlocked(fc_code, dangerous) = 0


\* C36: on the success path the scratch directory is removed only after the
\* response has been sent: until then the directory and the delivered file exist
\* and no removal has been attempted on it, the file is there when it is read for
\* the response, and the only removal of a delivered Job's directory is the
\* scheduled background task, run after the send.
C36_RemovedAfterSend ==
    /\ [](/\ sent # "missing"
          /\ (Delivered /\ sent = "no") =>
                /\ work_dir # None
                /\ work_dir \subseteq dirs
                /\ work_dir \cap rmAttempted = {}
                /\ Get(response).path[2] \in files
                /\ bgTasks = <<Get(work_dir)>>)
    /\ [][(Delivered /\ rmCalls' # rmCalls) =>
            /\ sent = "ok"
            /\ bgTasks # <<>>
            /\ rmAttempted' = rmAttempted \cup {Head(bgTasks)}
            /\ Head(bgTasks) = Get(work_dir)]_vars

\* the archive was sent and its scratch directory has been removed since
C36_Witness ==
    /\ Delivered
    /\ sent = "ok"
    /\ Get(response).path[2] = "render.zip"
    /\ work_dir \cap dirs = {}
    /\ work_dir \subseteq rmAttempted


\* C37 as stated: a /generate Job never has more than one existing scratch
\* directory, the directory of attempt n being gone when that of attempt n+1 is made
C37_AtMostOneDirectory ==
    IsGenerate => Cardinality(dirs) <= 1

\* C37 amended: when an attempt of a /generate Job fails, the removal of its scratch
\* directory is attempted, errors ignored, before the failure reaches the retry
\* loop.  So when the directory of attempt n+1 is made the removal of every earlier
\* directory has been attempted and at most one directory exists whose removal was
\* not; the directory of attempt n is gone then if its deletion succeeded, and it
\* still exists beside the new one if the deletion failed.
C37_RemovalBeforeNextAttempt ==
    /\ [](IsGenerate =>
            /\ Cardinality(dirs \ rmAttempted) <= 1
            /\ pc = "generating" => created \subseteq rmAttempted
            /\ \A r \in lastRaise :
                  (pc = "generating" /\ attempt > 0) =>
                      /\ uuid4(nextDir - 1) \in rmAttempted
                      /\ r.removed => uuid4(nextDir - 1) \notin dirs
                      /\ ~r.removed => uuid4(nextDir - 1) \in dirs)
    /\ [][(IsGenerate /\ created' # created) => created \subseteq rmAttempted]_vars

\* the second attempt runs in its directory, the first one's has been removed
C37_Witness ==
    /\ IsGenerate
    /\ pc = "executing"
    /\ attempt = 1
    /\ Cardinality(created) = 2
    /\ dirs = work_dir
    /\ created \ dirs \subseteq rmAttempted


\* C38: an artifact is returned only for an attempt whose sandbox run exited 0 and
\* whose mesh passed validate_mesh: packaging is reached only from the validation of
\* the same attempt, validation only from the wait for its sandbox run, packaging
\* never holds a non-zero exit code or a mesh that fails a check, and a response
\* with a file is only ever made by the packaging step of that attempt.
C38_DeliveredOnlyAfterValidation ==
    /\ [](pc = "packaging" =>
            /\ sbx.code = 0
            /\ sbx.cause = "exit"
            /\ ("output.stl" \in files /\ mesh.loadable) => FailingChecks(mesh) = {})
    /\ [][(pc' = "validating" /\ pc # "validating") =>
            pc = "executing" /\ attempt' = attempt /\ work_dir' = work_dir]_vars
    /\ [][(pc' = "packaging" /\ pc # "packaging") =>
            pc = "validating" /\ attempt' = attempt /\ work_dir' = work_dir]_vars
    /\ [][(Delivered' /\ ~Delivered) =>
            /\ pc = "packaging"
            /\ attempt' = attempt
            /\ work_dir' = work_dir
            /\ sandboxCalls' = sandboxCalls
            /\ Get(response').path[1] = ToString(Get(work_dir))]_vars

\* the second attempt of a /generate Job was delivered after the first one failed
C38_Witness ==
    /\ Delivered
    /\ IsGenerate
    /\ attempt = 1
    /\ sandboxCalls = 2
    /\ \E f \in prevFailure : f.attempt = 0 /\ f.code # 0
    /\ Get(response).path[2] = "output.stl"


\* the reply came with a text that is no JSON text
ReplyUnparseable ==
    ~service.raises /\ service.has_text /\ json_loads(ExtractJson(service.text)) = None

\* C39: _extract_spec never raises, whatever the model service returns or throws: a
\* call that raised (or a reply without text) yields the placeholder specification
\* with zero token usage, a reply that is no JSON text yields the placeholder with
\* the usage of the reply; what it returns is always a JSON text, and run() goes on
\* to code generation with a JSON text.
C39_ExtractionNeverRaises ==
    /\ pc # "failed"
    /\ \A e \in extracted :
          /\ ~e.raised
          /\ json_loads(e.text) # None
          /\ pc = "extracted" =>
                /\ (service.raises \/ ~service.has_text) =>
                      /\ json_loads(e.text) = Some(PlaceholderFailed)
                      /\ e.usage = NoUsage
                /\ ReplyUnparseable =>
                      /\ json_loads(e.text) = Some(PlaceholderUnparsed)
                      /\ e.usage = service.usage

\* the call raised and run() went on to code generation with the placeholder
C39_Witness ==
    /\ pc = "code"
    /\ service.raises
    /\ \E e \in extracted :
          /\ e.usage = NoUsage
          /\ Get(json_loads(e.text))[1] = "obj"
          /\ DictHas(Get(json_loads(e.text))[2], "\"error\"")

=============================================================================
